---- MODULE Spec2Model ----
(***************************************************************************)
(* Model of the object validator of joi (lib/types/object.js): the         *)
(* run-time driver _base with its stages (type gate, fast path, shallow    *)
(* copy, _rename, declared fields, patterns, unknown keys, dependencies),  *)
(* and the composition calls that build a schema (keys, pattern, rename,   *)
(* the dependency calls, unknown, requiredKeys / optionalKeys /            *)
(* forbiddenKeys).                                                         *)
(*                                                                         *)
(* Spec explores validate calls on composed schemas, SpecBuild composes a  *)
(* schema call by call and then validates with it, SpecCalls validates the *)
(* same input repeatedly with one schema object.  SpecString is the string *)
(* validator (lib/types/string/index.js): _coerce, _base and the max rule. *)
(*                                                                         *)
(* JavaScript objects are sequences of [k, v] entries with distinct keys   *)
(* (own enumerable string keys in insertion order).  Objects live on a     *)
(* heap so that reference identity and aliasing can be observed.           *)
(***************************************************************************)
EXTENDS Integers, Sequences, FiniteSets, TLC

\* ---------------------------------------------------------------- bounds
MaxCalls == 2
MaxBuild == 2
MaxLen == 3
MaxLimit == 2

\* ---------------------------------------------------------------- values
Undef == "undefined"
Null == "null"
Fn == "fn"
Keys == {"a", "b", "c"}
Vals == {"v1", "v2", Undef, Fn}

\* ------------------------------------------------------- object helpers
RECURSIVE SeqToSet(_)
SeqToSet(s) == IF s = <<>> THEN {} ELSE {Head(s)} \cup SeqToSet(Tail(s))

RECURSIVE Filter(_, _)
Filter(s, drop) ==
    IF s = <<>> THEN <<>>
    ELSE IF Head(s) \in drop THEN Filter(Tail(s), drop)
    ELSE <<Head(s)>> \o Filter(Tail(s), drop)

KeysOf(o) == [i \in 1..Len(o) |-> o[i].k]

Has(o, k) == \E i \in 1..Len(o) : o[i].k = k

Get(o, k) ==
    IF Has(o, k) THEN o[CHOOSE i \in 1..Len(o) : o[i].k = k].v ELSE Undef

Put(o, k, v) ==
    IF Has(o, k)
    THEN [i \in 1..Len(o) |-> IF o[i].k = k THEN [k |-> k, v |-> v] ELSE o[i]]
    ELSE Append(o, [k |-> k, v |-> v])

RECURSIVE Del(_, _)
Del(o, k) ==
    IF o = <<>> THEN <<>>
    ELSE IF Head(o).k = k THEN Tail(o)
    ELSE <<Head(o)>> \o Del(Tail(o), k)

RECURSIVE DelAll(_, _)
DelAll(o, ks) == IF ks = <<>> THEN o ELSE DelAll(Del(o, Head(ks)), Tail(ks))

CreateError(code, ctx, path) == [code |-> code, ctx |-> ctx, path |-> path]

\* --------------------------------------------------- leaf validators
\* A child schema is [rule, strip].  The leaf contract returns the
\* validated value, the pre-strip outcome and the errors of the leaf.
\* "min8" is string().min(8) over the values "abcd1234" and "abc1";
\* "default1" is any().default("v1").
LeafRules == {"any", "required", "forbidden", "empty", "valid1"}

LeafFails(leaf, item) ==
    CASE leaf.rule = "required"  -> item = Undef
      [] leaf.rule = "forbidden" -> item # Undef
      [] leaf.rule = "valid1"    -> item \notin {Undef, "v1"}
      [] leaf.rule = "min8"      -> item \notin {Undef, "abcd1234"}
      [] OTHER                   -> FALSE

LeafCode(leaf) ==
    CASE leaf.rule = "required"  -> "any.required"
      [] leaf.rule = "forbidden" -> "any.unknown"
      [] leaf.rule = "min8"      -> "string.min"
      [] OTHER                   -> "any.allowOnly"

\* A leaf "ref.k" is any().valid(ref(k)): the sibling k of the field;
\* "ref.up.k" is any().valid(ref(k)) with ancestor 2: the key k one level up.
RefKey(leaf) ==
    CASE leaf.rule \in {"ref.a", "ref.up.a"} -> "a"
      [] leaf.rule = "ref.b" -> "b"
      [] leaf.rule = "ref.c" -> "c"
      [] OTHER -> ""

RefAncestor(leaf) == IF leaf.rule = "ref.up.a" THEN 2 ELSE 1

\* _refs.roots(): the sibling keys the schema refers to
RefRoots(leaf) ==
    IF RefKey(leaf) # "" /\ RefAncestor(leaf) = 1 THEN {RefKey(leaf)} ELSE {}

\* ref.resolve: the value under the key in the ancestor the reference names
RefResolve(leaf, localState) ==
    IF Len(localState.ancestors) >= RefAncestor(leaf)
    THEN Get(localState.ancestors[RefAncestor(leaf)], RefKey(leaf))
    ELSE Undef

RefFails(leaf, item, localState) ==
    RefKey(leaf) # "" /\ item # Undef /\ item # RefResolve(leaf, localState)

LeafValidate(leaf, item, localState, opts) ==
    LET final == IF leaf.rule = "empty" THEN Undef
                 ELSE IF leaf.rule = "default1" /\ item = Undef THEN "v1"
                 ELSE item
    IN  IF LeafFails(leaf, item) \/ RefFails(leaf, item, localState)
        THEN [value |-> item, outcome |-> item,
              errors |-> <<CreateError(LeafCode(leaf), <<>>, localState.path)>>]
        ELSE [value |-> IF leaf.strip THEN Undef ELSE final,
              outcome |-> final, errors |-> <<>>]

\* ------------------------------------------------------------- regexes
\* A regular expression without the g and y flags is the set of keys it
\* accepts: RegExp.prototype.test is then a pure predicate.
RegExpTest(re, key) ==
    CASE re \in {"/^[ab]$/", "/^[ab]$/g"} -> key \in {"a", "b"}
      [] re = "/^[bc]$/" -> key \in {"b", "c"}
      [] re = "/^c$/"    -> key = "c"
      [] re = "/^z$/"    -> FALSE
      [] OTHER           -> FALSE

IsRegExp(from) == from \notin Keys

\* the g and y flags of a regular expression
RegExpFlags(re) == IF re = "/^[ab]$/g" THEN {"g"} ELSE {}

\* re.test(key) of a regular expression object whose lastIndex is given: with
\* the g flag the search starts at lastIndex and leaves lastIndex behind the
\* match, or at 0 when nothing matched (keys are one character long and the
\* expressions are anchored, so only a search from 0 can match)
RegExpExec(re, lastIndex, key) ==
    IF RegExpFlags(re) = {} THEN [found |-> RegExpTest(re, key), lastIndex |-> lastIndex]
    ELSE IF lastIndex = 0 /\ RegExpTest(re, key) THEN [found |-> TRUE, lastIndex |-> 1]
    ELSE [found |-> FALSE, lastIndex |-> 0]

\* "for (const key in target) if (rename.from.test(key)) matchedTargetKeys.push(key)"
RECURSIVE RegExpScan(_, _, _)
RegExpScan(re, lastIndex, keys) ==
    IF keys = <<>> THEN [matched |-> <<>>, lastIndex |-> lastIndex]
    ELSE LET x == RegExpExec(re, lastIndex, Head(keys))
             rest == RegExpScan(re, x.lastIndex, Tail(keys))
         IN  [matched |-> (IF x.found THEN <<Head(keys)>> ELSE <<>>) \o rest.matched,
              lastIndex |-> rest.lastIndex]

\* ------------------------------------------------------------- _rename
\* acc = [target, errors, renamed, ok, lastIndex] (lastIndex: that of each
\* directive's rename.from) and, for the record of the call,
\* writes (assignments to a target), applied (directives applied), processed
\* (last directive run to its end), halted (directive that returned false) and
\* steps (one record per directive reached)
RenameError(r, acc, kind, st) ==
    LET matched == IF IsRegExp(r.from)
                   THEN RegExpScan(r.from, r.lastIndex, KeysOf(acc.target)).matched
                   ELSE <<r.from>>
        code == IF IsRegExp(r.from) THEN "object.rename.regex." \o kind
                ELSE "object.rename." \o kind
    IN  CreateError(code, matched \o <<r.to>>, st.path)

\* "if (!rename.options.alias)": the source survives only under alias
KeepSourceNever(r) == FALSE

KeepSource(r) == r.alias

\* "target[matchedTargetKeys[matchedTargetKeys.length - 1]]": the key whose value
\* the target receives
FirstMatched(matched) == matched[1]

LastMatched(matched) == matched[Len(matched)]

RenameApply(r, t) ==
    IF IsRegExp(r.from)
    THEN LET matched == RegExpScan(r.from, r.lastIndex, KeysOf(t)).matched
             allUndefined == \A i \in 1..Len(matched) : Get(t, matched[i]) = Undef
             t1 == IF allUndefined THEN Del(t, r.to)
                   ELSE Put(t, r.to, Get(t, LastMatched(matched)))
         IN  IF KeepSource(r) THEN t1 ELSE DelAll(t1, Filter(matched, {r.to}))
    ELSE LET t1 == IF Get(t, r.from) = Undef THEN Del(t, r.to)
                   ELSE Put(t, r.to, Get(t, r.from))
         IN  IF KeepSource(r) THEN t1 ELSE Del(t1, r.from)

RenameSourceUndefined(r, t) ==
    IF IsRegExp(r.from)
    THEN \A k \in SeqToSet(RegExpScan(r.from, r.lastIndex, KeysOf(t)).matched) :
            Get(t, k) = Undef
    ELSE Get(t, r.from) = Undef

\* "if (options.abortEarly) return false" after a rename error was pushed
RenameNeverHalts(violation, opts) == FALSE

RenameHalts(violation, opts) == violation /\ opts.abortEarly

\* the record of one directive: the working copy before and after it, the keys
\* its source matched, how it ended and the errors it pushed
Step(r, i, acc, a, outcome) ==
    [i |-> i, before |-> acc.target, after |-> a.target,
     matched |-> IF IsRegExp(r.from)
                 THEN RegExpScan(r.from, r.lastIndex, KeysOf(acc.target)).matched
                 ELSE <<r.from>>,
     outcome |-> outcome,
     errors |-> SubSeq(a.errors, Len(acc.errors) + 1, Len(a.errors))]

RenameOne(r, i, acc, st, opts) ==
    LET t == acc.target
        a0 == IF IsRegExp(r.from)
              THEN [acc EXCEPT !.lastIndex[i] =
                                   RegExpScan(r.from, r.lastIndex, KeysOf(t)).lastIndex]
              ELSE acc
        Stepped(a, outcome) == [a EXCEPT !.steps = Append(@, Step(r, i, acc, a, outcome))]
        multipleErr == ~r.multiple /\ r.to \in acc.renamed
        overrideErr == Has(t, r.to) /\ ~r.override /\ r.to \notin acc.renamed
        e1 == IF multipleErr
              THEN Append(acc.errors, RenameError(r, acc, "multiple", st))
              ELSE acc.errors
        e2 == IF overrideErr
              THEN Append(e1, RenameError(r, acc, "override", st))
              ELSE e1
    IN  IF r.ignoreUndefined /\ RenameSourceUndefined(r, t)
        THEN Stepped([a0 EXCEPT !.processed = i], "skipped")
        ELSE IF RenameHalts(multipleErr, opts)
             THEN Stepped([a0 EXCEPT !.errors = e1, !.ok = FALSE, !.halted = i], "halted")
        ELSE IF RenameHalts(overrideErr, opts)
             THEN Stepped([a0 EXCEPT !.errors = e2, !.ok = FALSE, !.halted = i], "halted")
        ELSE Stepped([a0 EXCEPT !.errors = e2,
                                !.processed = i,
                                !.target = RenameApply(r, t),
                                !.renamed = acc.renamed \cup {r.to},
                                !.applied = Append(acc.applied, i),
                                !.writes = IF RenameSourceUndefined(r, t) THEN acc.writes
                                           ELSE Append(acc.writes,
                                                       [to |-> r.to,
                                                        multiple |-> r.multiple])],
                     "applied")

RECURSIVE RenameLoop(_, _, _, _, _)
RenameLoop(renames, i, acc, st, opts) ==
    IF i > Len(renames) \/ ~acc.ok THEN acc
    ELSE RenameLoop(renames, i + 1, RenameOne(renames[i], i, acc, st, opts), st, opts)

\* Result: the renamed target, the errors, ok = the return value of _rename
_rename(renames, target, st, opts, errors) ==
    RenameLoop(renames, 1,
               [target |-> target, errors |-> errors, renamed |-> {},
                writes |-> <<>>, ok |-> TRUE, applied |-> <<>>,
                processed |-> 0, halted |-> 0, steps |-> <<>>,
                lastIndex |-> [i \in 1..Len(renames) |-> renames[i].lastIndex]],
               st, opts)

\* ------------------------------------------------------ declared fields
\* "if (options.abortEarly) return finish()" after the errors were pushed
AbortAlways(failed, opts) == failed

AbortOnError(failed, opts) == failed /\ opts.abortEarly

\* "const ancestors = [target, ...state.ancestors]": the working copy itself
FieldAncestorsOuter(target, st) == st.ancestors

FieldAncestors(target, st) == <<target>> \o st.ancestors

\* what a recursive validation was started with, and the working copy then
Local(key, localState, target) ==
    [key |-> key, path |-> localState.path, ancestors |-> localState.ancestors,
     target |-> target]

\* acc = [target, errors, strips, unprocessed, aborted, visited, locals]
FieldOne(child, acc, st, opts) ==
    LET key == child.key
        item == Get(acc.target, key)
        localState == [path |-> Append(st.path, key),
                       ancestors |-> FieldAncestors(acc.target, st)]
        result == LeafValidate(child.schema, item, localState, opts)
        failed == result.errors # <<>>
        a1 == [acc EXCEPT !.unprocessed = Filter(acc.unprocessed, {key}),
                          !.visited = Append(acc.visited, key),
                          !.locals = Append(acc.locals, Local(key, localState, acc.target)),
                          !.errors = acc.errors \o result.errors]
    IN  IF AbortOnError(failed, opts) THEN [a1 EXCEPT !.aborted = TRUE]
        ELSE LET a2 == IF failed THEN a1
                       ELSE IF child.schema.strip
                               \/ (result.value = Undef /\ item # Undef)
                            THEN [a1 EXCEPT !.strips = Append(a1.strips, key),
                                            !.target = Put(a1.target, key, result.outcome)]
                       ELSE IF result.value # Undef
                            THEN [a1 EXCEPT !.target = Put(a1.target, key, result.value)]
                       ELSE a1
             IN  IF child.schema.strip
                 THEN [a2 EXCEPT !.strips = Append(a2.strips, key)]
                 ELSE a2

RECURSIVE FieldLoop(_, _, _, _, _)
FieldLoop(children, i, acc, st, opts) ==
    IF acc.aborted THEN acc
    ELSE IF i > Len(children)
         THEN [acc EXCEPT !.target = DelAll(acc.target, acc.strips)]
    ELSE FieldLoop(children, i + 1, FieldOne(children[i], acc, st, opts), st, opts)

ValidateChildren(children, target, unprocessed, errors, st, opts) ==
    FieldLoop(children, 1,
              [target |-> target, errors |-> errors, strips |-> <<>>,
               unprocessed |-> unprocessed, aborted |-> FALSE, visited |-> <<>>,
               locals |-> <<>>],
              st, opts)

\* ------------------------------------------------------------- patterns
\* acc = [target, errors, unprocessed, aborted, matched, locals]
\* line 174: "this._state(key, [...state.path, key], [target])"
PatternAncestors(target, st) == <<target>>

PatternTest(pattern, key) ==
    IF pattern.regex # "" THEN RegExpTest(pattern.regex, key)
    ELSE key \in pattern.schema

PatternOne(pattern, key, item, acc, st, opts) ==
    LET localState == [path |-> Append(st.path, key),
                       ancestors |-> PatternAncestors(acc.target, st)]
        result == LeafValidate(pattern.rule, item, localState, opts)
        failed == result.errors # <<>>
        a1 == [acc EXCEPT !.unprocessed = Filter(acc.unprocessed, {key}),
                          !.matched = Append(acc.matched, key),
                          !.locals = Append(acc.locals, Local(key, localState, acc.target)),
                          !.errors = acc.errors \o result.errors]
    IN  IF ~PatternTest(pattern, key) THEN acc
        ELSE IF AbortOnError(failed, opts) THEN [a1 EXCEPT !.aborted = TRUE]
        ELSE [a1 EXCEPT !.target = Put(a1.target, key, result.value)]

RECURSIVE PatternKeyLoop(_, _, _, _, _, _, _)
PatternKeyLoop(patterns, i, key, item, acc, st, opts) ==
    IF acc.aborted \/ i > Len(patterns) THEN acc
    ELSE PatternKeyLoop(patterns, i + 1, key, item,
                        PatternOne(patterns[i], key, item, acc, st, opts), st, opts)

RECURSIVE PatternLoop(_, _, _, _, _)
PatternLoop(patterns, keys, acc, st, opts) ==
    IF acc.aborted \/ keys = <<>> THEN acc
    ELSE PatternLoop(patterns, Tail(keys),
                     PatternKeyLoop(patterns, 1, Head(keys),
                                    Get(acc.target, Head(keys)), acc, st, opts),
                     st, opts)

ValidatePatterns(patterns, target, unprocessed, errors, st, opts) ==
    LET acc == [target |-> target, errors |-> errors, unprocessed |-> unprocessed,
                aborted |-> FALSE, matched |-> <<>>, locals |-> <<>>]
    IN  IF unprocessed # <<>> /\ Len(patterns) > 0
        THEN PatternLoop(patterns, unprocessed, acc, st, opts)
        ELSE acc

\* --------------------------------------------------------- unknown keys
Default(value, defaultValue) == IF value = Undef THEN defaultValue ELSE value

Truthy(v) == v \notin {"false", Undef}

\* options.stripUnknown is false, true, { objects: true } or { arrays: true }
StripUnknownFlag(opts) ==
    IF Truthy(opts.stripUnknown)
    THEN (IF opts.stripUnknown = "true" THEN TRUE ELSE opts.stripUnknown = "objects")
    ELSE FALSE

\* line 202: unknown keys are judged only against declared children or patterns
Closed(sch) == ~sch.childrenNull \/ Len(sch.patterns) > 0

ForbidUnknownByOption(sch, opts) == ~opts.allowUnknown

ForbidUnknown(sch, opts) ==
    Default(sch.allowUnknown, IF opts.allowUnknown THEN "true" ELSE "false") # "true"

RECURSIVE UnknownErrors(_, _, _)
UnknownErrors(keys, target, st) ==
    IF keys = <<>> THEN <<>>
    ELSE <<CreateError("object.allowUnknown", <<Head(keys)>>, Append(st.path, Head(keys)))>>
         \o UnknownErrors(Tail(keys), target, st)

ValidateUnknown(sch, target, unprocessed, errors, st, opts) ==
    LET acc == [target |-> target, errors |-> errors, unprocessed |-> unprocessed]
        filtering == (Truthy(opts.stripUnknown) /\ sch.allowUnknown # "true")
                     \/ opts.skipFunctions
        stripUnknown == StripUnknownFlag(opts)
        a1 == IF ~filtering THEN acc
              ELSE IF stripUnknown
                   THEN [acc EXCEPT !.target = DelAll(target, unprocessed),
                                    !.unprocessed = <<>>]
              ELSE [acc EXCEPT !.unprocessed =
                        Filter(unprocessed, {k \in Keys : Get(target, k) = Fn})]
        forbidUnknown == ForbidUnknown(sch, opts)
    IN  IF unprocessed # <<>> /\ Closed(sch)
        THEN IF forbidUnknown
             THEN [a1 EXCEPT !.errors = errors \o UnknownErrors(a1.unprocessed, a1.target, st)]
             ELSE a1
        ELSE acc

\* --------------------------------------------------------- dependencies
\* A dependency is [type, key, peers]; key is Null for the peer-only types.
\* Peer paths have one segment, so Hoek.reach(parent, path) is parent[peer].
Reach(parent, k) == Get(parent, k)

Present(peers, parent) == Filter(peers, {k \in Keys : Reach(parent, k) = Undef})

Missing(peers, parent) == Filter(peers, {k \in Keys : Reach(parent, k) # Undef})

NoFailure == [code |-> "", ctx |-> <<>>]

\* "if (value === undefined) return": an absent key asks nothing of its peers
DepWithKeyless(dep, value, parent) ==
    IF Missing(dep.peers, parent) = <<>> THEN NoFailure
    ELSE [code |-> "object.with", ctx |-> <<dep.key, Head(Missing(dep.peers, parent))>>]

DepWith(dep, value, parent) ==
    IF value = Undef \/ Missing(dep.peers, parent) = <<>> THEN NoFailure
    ELSE [code |-> "object.with", ctx |-> <<dep.key, Head(Missing(dep.peers, parent))>>]

DepWithout(dep, value, parent) ==
    IF value = Undef \/ Present(dep.peers, parent) = <<>> THEN NoFailure
    ELSE [code |-> "object.without", ctx |-> <<dep.key, Head(Present(dep.peers, parent))>>]

\* "context.present = present": the conflict names the peers found present
DepXorNamesAll(dep, value, parent) ==
    LET present == Present(dep.peers, parent)
    IN  IF Len(present) = 1 THEN NoFailure
        ELSE IF Len(present) = 0 THEN [code |-> "object.missing", ctx |-> dep.peers]
        ELSE [code |-> "object.xor", ctx |-> dep.peers]

DepXor(dep, value, parent) ==
    LET present == Present(dep.peers, parent)
    IN  IF Len(present) = 1 THEN NoFailure
        ELSE IF Len(present) = 0 THEN [code |-> "object.missing", ctx |-> dep.peers]
        ELSE [code |-> "object.xor", ctx |-> present]

DepOxor(dep, value, parent) ==
    LET present == Present(dep.peers, parent)
    IN  IF Len(present) = 0 \/ Len(present) = 1 THEN NoFailure
        ELSE [code |-> "object.oxor", ctx |-> present]

DepOr(dep, value, parent) ==
    IF Present(dep.peers, parent) # <<>> THEN NoFailure
    ELSE [code |-> "object.missing", ctx |-> dep.peers]

DepAnd(dep, value, parent) ==
    LET present == Present(dep.peers, parent)
        missing == Missing(dep.peers, parent)
        count == Len(dep.peers)
    IN  IF Len(missing) # count /\ Len(present) # count
        THEN [code |-> "object.and", ctx |-> present \o <<"/">> \o missing]
        ELSE NoFailure

DepNand(dep, value, parent) ==
    IF Len(Present(dep.peers, parent)) # Len(dep.peers) THEN NoFailure
    ELSE [code |-> "object.nand", ctx |-> dep.peers]

DepMethod(dep, value, parent) ==
    CASE dep.type = "with"    -> DepWith(dep, value, parent)
      [] dep.type = "without" -> DepWithout(dep, value, parent)
      [] dep.type = "xor"     -> DepXor(dep, value, parent)
      [] dep.type = "oxor"    -> DepOxor(dep, value, parent)
      [] dep.type = "or"      -> DepOr(dep, value, parent)
      [] dep.type = "and"     -> DepAnd(dep, value, parent)
      [] OTHER                -> DepNand(dep, value, parent)

\* acc = [errors, aborted, evaluated, outcomes]; outcomes records what each
\* evaluated method returned
DepOne(dep, acc, target, st, opts) ==
    LET keyValue == IF dep.key # Null THEN Reach(target, dep.key) ELSE Null
        failed == DepMethod(dep, keyValue, target)
        path == IF dep.key # Null THEN Append(st.path, dep.key) ELSE st.path
        a1 == [acc EXCEPT !.evaluated = acc.evaluated + 1,
                          !.outcomes = Append(acc.outcomes, failed)]
    IN  IF failed.code = "" THEN a1
        ELSE [a1 EXCEPT !.errors = Append(acc.errors,
                                          CreateError(failed.code, failed.ctx, path)),
                        !.aborted = opts.abortEarly]

RECURSIVE DepLoop(_, _, _, _, _, _)
DepLoop(deps, i, acc, target, st, opts) ==
    IF acc.aborted \/ i > Len(deps) THEN acc
    ELSE DepLoop(deps, i + 1, DepOne(deps[i], acc, target, st, opts), target, st, opts)

ValidateDependencies(deps, target, errors, st, opts) ==
    DepLoop(deps, 1, [errors |-> errors, aborted |-> FALSE, evaluated |-> 0,
                      outcomes |-> <<>>],
            target, st, opts)

\* ----------------------------------------------------------------- Topo
\* The sorter keys() hands its children to.  items: [node, after, group] in the
\* order they were added; an item goes after every item whose group it names.
TopoAncestors(items, j) == {i \in 1..Len(items) : items[i].group \in items[j].after}

\* the first item not yet placed whose ancestors are all placed (0 if none)
RECURSIVE TopoSearch(_, _, _)
TopoSearch(items, j, st) ==
    IF j > Len(items) THEN [st EXCEPT !.next = 0]
    ELSE IF j \in st.visited THEN TopoSearch(items, j + 1, st)
    ELSE IF TopoAncestors(items, j) \subseteq st.visited
         THEN [st EXCEPT !.next = j, !.defined = @ \cup {j}]
    ELSE TopoSearch(items, j + 1, [st EXCEPT !.defined = @ \cup {j}])

RECURSIVE TopoLoop(_, _, _)
TopoLoop(items, i, st) ==
    IF i > Len(items) THEN st
    ELSE LET s1 == IF i \in st.defined THEN TopoSearch(items, 1, st)
                   ELSE [st EXCEPT !.next = i]
         IN  TopoLoop(items, i + 1,
                      IF s1.next = 0 THEN s1
                      ELSE [s1 EXCEPT !.visited = @ \cup {s1.next},
                                      !.sorted = Append(@, s1.next)])

TopoSort(items) ==
    TopoLoop(items, 1,
             [visited |-> {}, sorted |-> <<>>, next |-> 0,
              defined |-> {j \in 1..Len(items) : TopoAncestors(items, j) # {}}]).sorted

EmptyTopo == [items |-> <<>>, nodes |-> <<>>, ok |-> TRUE]

\* add(): ok = FALSE when the item names its own group or closes a cycle
TopoAdd(topo, node, after, group) ==
    LET items == Append(topo.items, [node |-> node, after |-> after, group |-> group])
        sorted == TopoSort(items)
    IN  IF group \in after \/ Len(sorted) # Len(items)
        THEN [topo EXCEPT !.ok = FALSE]
        ELSE [items |-> items,
              nodes |-> [i \in 1..Len(sorted) |-> items[sorted[i]].node],
              ok |-> TRUE]

\* ------------------------------------------------------- composition calls
\* Schema objects live on a heap objs; a call returns the heap and the
\* reference of the schema it built (0 when the call threw).
Clone(objs, this) == [objs |-> Append(objs, objs[this]), ref |-> Len(objs) + 1]

\* the object a call assigns to: "const obj = this.clone(); obj._inner... = ..."
WrittenIsReceiver(this, obj) == this

Written(this, obj) == obj

Threw(objs) == [objs |-> objs, built |-> 0]

CastFails(decl) == decl.rule = "bad"

\* "after: cast._refs.roots()"
KeysAfterNone(cast) == {}

KeysAfter(cast) == RefRoots(cast)

\* lines 377-386: the children the call does not re-declare
RECURSIVE KeysUntouched(_, _, _)
KeysUntouched(children, names, topo) ==
    IF children = <<>> \/ ~topo.ok THEN topo
    ELSE KeysUntouched(Tail(children), names,
                       IF Head(children).key \in names THEN topo
                       ELSE TopoAdd(topo, Head(children),
                                    KeysAfter(Head(children).schema), Head(children).key))

\* lines 388-405: the declared fields, in the order of the field map
RECURSIVE KeysDeclared(_, _)
KeysDeclared(entries, topo) ==
    IF entries = <<>> \/ ~topo.ok THEN topo
    ELSE KeysDeclared(Tail(entries),
                      IF CastFails(Head(entries).schema) THEN [topo EXCEPT !.ok = FALSE]
                      ELSE TopoAdd(topo, Head(entries),
                                   KeysAfter(Head(entries).schema), Head(entries).key))

\* keys(schema): fieldMap.kind is "none" (null or undefined), "schema" (a joi
\* schema) or "map" (a plain object, its entries in key order)
Object_keys(objs, this, fieldMap) ==
    LET c == Clone(objs, this)
        w == Written(this, c.ref)
        names == {fieldMap.entries[i].key : i \in 1..Len(fieldMap.entries)}
        topo == KeysDeclared(fieldMap.entries,
                             KeysUntouched(c.objs[c.ref].children, names, EmptyTopo))
    IN  IF fieldMap.kind = "schema" THEN Threw(objs)
        ELSE IF fieldMap.kind = "none"
             THEN [objs |-> [c.objs EXCEPT ![w].childrenNull = TRUE, ![w].children = <<>>],
                   built |-> c.ref]
        ELSE IF fieldMap.entries = <<>>
             THEN [objs |-> [c.objs EXCEPT ![w].childrenNull = FALSE, ![w].children = <<>>],
                   built |-> c.ref]
        ELSE IF ~topo.ok THEN Threw(c.objs)
        ELSE [objs |-> [c.objs EXCEPT ![w].childrenNull = FALSE,
                                      ![w].children = topo.nodes],
              built |-> c.ref]

\* pattern(pattern, schema): arg = [regex, schema, rule]
Object_pattern(objs, this, arg) ==
    LET c == Clone(objs, this)
        w == Written(this, c.ref)
    IN  IF arg.regex # "" /\ RegExpFlags(arg.regex) \cap {"g", "y"} # {} THEN Threw(objs)
        ELSE IF CastFails(arg.rule) THEN Threw(objs)
        ELSE [objs |-> [c.objs EXCEPT ![w].patterns = Append(@, arg)], built |-> c.ref]

\* rename(from, to, options): arg is the directive
Object_rename(objs, this, arg) ==
    LET c == Clone(objs, this)
        w == Written(this, c.ref)
        renames == objs[this].renames
    IN  IF arg.to = arg.from THEN Threw(objs)
        ELSE IF \E i \in 1..Len(renames) : renames[i].from = arg.from THEN Threw(objs)
        ELSE [objs |-> [c.objs EXCEPT ![w].renames = Append(@, arg)], built |-> c.ref]

\* _dependency(type, key, peers): arg = [dep, strings]; strings is FALSE when
\* the key or a peer is not a string
Object_dependency(objs, this, arg) ==
    LET c == Clone(objs, this)
        w == Written(this, c.ref)
    IN  IF ~arg.strings THEN Threw(objs)
        ELSE [objs |-> [c.objs EXCEPT ![w].dependencies = Append(@, arg.dep)],
              built |-> c.ref]

\* unknown(allow)
Object_unknown(objs, this, allow) ==
    LET c == Clone(objs, this)
        w == Written(this, c.ref)
    IN  [objs |-> [c.objs EXCEPT ![w].allowUnknown = IF allow # "false" THEN "true"
                                                     ELSE "false"],
         built |-> c.ref]

\* child.schema.applyFunctionToChildren([''], fn): the presence rule of a leaf
ApplyPresence(leaf, fn) ==
    IF leaf.rule \in {"any", "required", "forbidden"}
    THEN [leaf EXCEPT !.rule = IF fn = "optional" THEN "any" ELSE fn]
    ELSE leaf

\* applyFunctionToChildren(children, fn) for flat child names: arg = [names, fn]
Object_applyFunctionToChildren(objs, this, arg) ==
    LET c == Clone(objs, this)
        w == Written(this, c.ref)
        children == c.objs[c.ref].children
        group == SeqToSet(arg.names)
        applied == [i \in 1..Len(children) |->
                       IF children[i].key \in group
                       THEN [key |-> children[i].key,
                             schema |-> ApplyPresence(children[i].schema, arg.fn)]
                       ELSE children[i]]
        remaining == group \ {children[i].key : i \in 1..Len(children)}
        written == [c.objs EXCEPT ![w].children = applied]
    IN  IF arg.names = <<>> THEN Threw(objs)
        ELSE IF remaining # {} THEN Threw(written)
        ELSE [objs |-> written, built |-> c.ref]

\* ---------------------------------------------------------------- state
VARIABLES
    schema,       \* the object schema: _inner.children/renames/dependencies/patterns, _flags
    options,      \* the validation options of the call
    state,        \* the ValidationState of the call: path and ancestors
    heap,         \* the objects of the call, by reference
    value,        \* the caller's input: its kind (typeof / isArray) and its reference
    target,       \* reference of the working copy (0 before the copy is made)
    errors,       \* the errors accumulated by the call
    unprocessed,  \* the keys not yet accounted for, in insertion order
    pc,           \* the position of the call in _base
    result,       \* what finish() returned: value reference and errors
    calls,        \* number of validate calls started
    orig,         \* the content of the input object when the call started
    prev,         \* content and errors returned by the previous call
    log,          \* what the call has done so far: stages run, rename writes, ...
    build,        \* the composition calls: schema objects, receiver and built schema
    str           \* a validate call on a string schema: schema, input, position, result

vars == <<schema, options, state, heap, value, target, errors, unprocessed, pc,
          result, calls, orig, prev, log, build, str>>

NoResult == [value |-> 0, errors |-> <<>>]

NoString == [pc |-> "", schema |-> <<>>, input |-> <<>>, value |-> <<>>, errors |-> <<>>]

NoBuild == [objs |-> <<>>, this |-> 0, built |-> 0, before |-> <<>>, n |-> 0,
            op |-> "", arg |-> <<>>]

EmptyLog == [ran |-> <<>>, writes |-> <<>>, applied |-> <<>>, renameOk |-> TRUE,
             processed |-> 0, halted |-> 0,
             visited |-> <<>>, matched |-> <<>>, evaluated |-> 0, copied |-> FALSE,
             renamed |-> <<>>, shaped |-> <<>>, outcomes |-> <<>>,
             locals |-> <<>>, matchedLocals |-> <<>>, steps |-> <<>>]

\* ---------------------------------------------------------------- _base
ShallowCopyAlias(h, ref) == [heap |-> h, ref |-> ref]

ShallowCopy(h, ref) == [heap |-> Append(h, h[ref]), ref |-> Len(h) + 1]

TypeGateFails(sch, val) ==
    val.kind # (IF sch.func THEN "function" ELSE "object")

FastPath(sch) ==
    /\ Len(sch.renames) = 0
    /\ Len(sch.dependencies) = 0
    /\ sch.childrenNull
    /\ Len(sch.patterns) = 0

NoShape(sch) ==
    /\ sch.childrenNull
    /\ Len(sch.patterns) = 0
    /\ Len(sch.dependencies) = 0

\* finish(): the call returns the working copy and the accumulated errors
Finish(ref, errs) ==
    /\ pc' = "done"
    /\ result' = [value |-> ref, errors |-> errs]

\* lines 58-107: type gate, fast path, shallow copy
Enter ==
    /\ pc = "ready"
    /\ UNCHANGED <<str, build, schema, options, state, value, unprocessed, calls, orig, prev>>
    /\ IF TypeGateFails(schema, value)
       THEN /\ errors' = <<CreateError((IF schema.func THEN "function" ELSE "object")
                                        \o ".base", <<>>, state.path)>>
            /\ Finish(value.ref, errors')
            /\ log' = [log EXCEPT !.ran = Append(log.ran, "gate")]
            /\ UNCHANGED <<heap, target>>
       ELSE IF FastPath(schema)
       THEN /\ Finish(value.ref, <<>>)
            /\ log' = [log EXCEPT !.ran = Append(log.ran, "fast")]
            /\ UNCHANGED <<heap, target, errors>>
       ELSE LET c == ShallowCopy(heap, value.ref)
            IN  /\ heap' = c.heap
                /\ target' = c.ref
                /\ pc' = "rename"
                /\ log' = [log EXCEPT !.ran = Append(log.ran, "copy"), !.copied = TRUE]
                /\ UNCHANGED <<errors, result>>

\* lines 109-124: renames, then the shape test and the unprocessed set
Rename ==
    /\ pc = "rename"
    /\ UNCHANGED <<str, build, options, state, value, target, calls, orig, prev>>
    /\ LET r == _rename(schema.renames, heap[target], state, options, errors)
       IN  /\ heap' = [heap EXCEPT ![target] = r.target]
           /\ schema' = [schema EXCEPT !.renames =
                             [i \in 1..Len(@) |-> [@[i] EXCEPT !.lastIndex = r.lastIndex[i]]]]
           /\ errors' = r.errors
           /\ log' = [log EXCEPT !.ran = Append(log.ran, "rename"),
                                 !.writes = r.writes, !.applied = r.applied,
                                 !.renameOk = r.ok, !.renamed = r.target,
                                 !.processed = r.processed, !.halted = r.halted,
                                 !.steps = r.steps]
           /\ IF ~r.ok \/ NoShape(schema)
              THEN /\ Finish(target, r.errors)
                   /\ UNCHANGED unprocessed
              ELSE /\ unprocessed' = KeysOf(r.target)
                   /\ pc' = "fields"
                   /\ UNCHANGED result

\* lines 126-166: the declared fields
Fields ==
    /\ pc = "fields"
    /\ UNCHANGED <<str, build, schema, options, state, value, target, calls, orig, prev>>
    /\ IF schema.childrenNull
       THEN /\ pc' = "patterns"
            /\ log' = [log EXCEPT !.shaped = heap[target]]
            /\ UNCHANGED <<heap, errors, unprocessed, result>>
       ELSE LET r == ValidateChildren(schema.children, heap[target], unprocessed,
                                      errors, state, options)
            IN  /\ heap' = [heap EXCEPT ![target] = r.target]
                /\ errors' = r.errors
                /\ unprocessed' = r.unprocessed
                /\ log' = [log EXCEPT !.ran = Append(log.ran, "fields"),
                                      !.visited = r.visited, !.shaped = r.target,
                                      !.locals = r.locals]
                /\ IF r.aborted THEN Finish(target, r.errors)
                   ELSE pc' = "patterns" /\ UNCHANGED result

\* lines 170-199: the keys matched by a pattern
Patterns ==
    /\ pc = "patterns"
    /\ UNCHANGED <<str, build, schema, options, state, value, target, calls, orig, prev>>
    /\ LET r == ValidatePatterns(schema.patterns, heap[target], unprocessed,
                                 errors, state, options)
       IN  /\ heap' = [heap EXCEPT ![target] = r.target]
           /\ errors' = r.errors
           /\ unprocessed' = r.unprocessed
           /\ log' = [log EXCEPT !.ran = Append(log.ran, "patterns"),
                                 !.matched = r.matched,
                                 !.matchedLocals = r.locals]
           /\ IF r.aborted THEN Finish(target, r.errors)
              ELSE pc' = "unknown" /\ UNCHANGED result

\* lines 201-230: the unknown keys
Unknown ==
    /\ pc = "unknown"
    /\ UNCHANGED <<str, build, schema, options, state, value, target, calls, orig, prev, result>>
    /\ LET r == ValidateUnknown(schema, heap[target], unprocessed, errors, state, options)
       IN  /\ heap' = [heap EXCEPT ![target] = r.target]
           /\ errors' = r.errors
           /\ unprocessed' = r.unprocessed
           /\ log' = [log EXCEPT !.ran = Append(log.ran, "unknown")]
           /\ pc' = "deps"

\* "method(this, dep, keyValue, target)": the object the constraints look at
DepSubjectIsInput(h, val, tgt) == h[val.ref]

DepSubject(h, val, tgt) == h[tgt]

\* lines 232-249: the dependencies, then finish()
Dependencies ==
    /\ pc = "deps"
    /\ UNCHANGED <<str, build, schema, options, state, value, target, calls, orig, prev,
                   heap, unprocessed>>
    /\ LET r == ValidateDependencies(schema.dependencies,
                                     DepSubject(heap, value, target), errors,
                                     state, options)
       IN  /\ errors' = r.errors
           /\ log' = [log EXCEPT !.ran = Append(log.ran, "deps"),
                                 !.evaluated = r.evaluated,
                                 !.outcomes = r.outcomes]
           /\ Finish(target, r.errors)

\* The caller validates the returned value again with the same schema.
Again ==
    /\ pc = "done"
    /\ calls < MaxCalls
    /\ calls' = calls + 1
    /\ prev' = [input |-> orig, value |-> heap[result.value], errors |-> result.errors]
    /\ heap' = <<heap[result.value]>>
    /\ value' = [value EXCEPT !.ref = 1]
    /\ orig' = heap[result.value]
    /\ target' = 0
    /\ errors' = <<>>
    /\ unprocessed' = <<>>
    /\ result' = NoResult
    /\ log' = EmptyLog
    /\ pc' = "ready"
    /\ UNCHANGED <<str, build, schema, options, state>>

Next == Enter \/ Rename \/ Fields \/ Patterns \/ Unknown \/ Dependencies \/ Again

\* ----------------------------------------------------------- scenarios
\* Schemas, options and inputs of the calls explored.  A scenario is the
\* schema built by the composition calls, the options and the input.
Leaf(rule, strip) == [rule |-> rule, strip |-> strip]

Child(key, leaf) == [key |-> key, schema |-> leaf]

Directive(from, to, alias, multiple, override, ignoreUndefined) ==
    [from |-> from, to |-> to, alias |-> alias, multiple |-> multiple,
     override |-> override, ignoreUndefined |-> ignoreUndefined, lastIndex |-> 0]

RegexPattern(re, rule) == [regex |-> re, schema |-> {}, rule |-> rule]

SchemaPattern(keys, rule) == [regex |-> "", schema |-> keys, rule |-> rule]

Dep(type, key, peers) == [type |-> type, key |-> key, peers |-> peers]

\* Joi.object(): constructor, lines 23-31
EmptySchema ==
    [childrenNull |-> TRUE, children |-> <<>>, renames |-> <<>>,
     dependencies |-> <<>>, patterns |-> <<>>, allowUnknown |-> Undef, func |-> FALSE]

DefaultOptions ==
    [abortEarly |-> TRUE, allowUnknown |-> FALSE, stripUnknown |-> "false",
     skipFunctions |-> FALSE]

RootState == [path |-> <<>>, ancestors |-> <<>>]

NestedState == [path |-> <<"o">>, ancestors |-> <<<<[k |-> "o", v |-> "v1"]>>>>]

KeyOrders ==
    {s \in UNION {[1..n -> Keys] : n \in 0..Cardinality(Keys)} :
        \A i, j \in 1..Len(s) : i # j => s[i] # s[j]}

ObjOf(ks, f) == [i \in 1..Len(ks) |-> [k |-> ks[i], v |-> f[ks[i]]]]

\* objects whose keys appear in alphabetical order, key k drawn from dom[k]
\* ("-" = the key is absent)
ObjectsOver(dom) ==
    {ObjOf(Filter(<<"a", "b", "c">>, {k \in Keys : f[k] = "-"}), f) :
        f \in {g \in [Keys -> Vals \cup {"-"}] : \A k \in Keys : g[k] \in dom[k]}}

\* unknown-key policy: one declared field, every combination of the options
ScenariosUnknown ==
    {[schema |-> [EmptySchema EXCEPT !.childrenNull = FALSE,
                                     !.children = <<Child("a", Leaf("any", FALSE))>>,
                                     !.allowUnknown = au,
                                     !.dependencies = deps],
      options |-> [abortEarly |-> ae, allowUnknown |-> oau, stripUnknown |-> su,
                   skipFunctions |-> sf],
      state |-> st, kind |-> "object", input |-> o] :
        au \in {Undef, "true", "false"},
        deps \in {<<>>, <<Dep("with", "a", <<"b">>)>>},
        ae \in BOOLEAN, oau \in BOOLEAN, sf \in BOOLEAN,
        su \in {"false", "true", "objects", "arrays"},
        st \in {RootState, NestedState},
        o \in ObjectsOver([a |-> {"v1"}, b |-> {"-", Fn}, c |-> {"-", "v2"}])}

RenameOptions == [alias : BOOLEAN, multiple : BOOLEAN, override : BOOLEAN,
                  ignoreUndefined : BOOLEAN]

FirstDirectives ==
    {Directive(ft[1], ft[2], ro.alias, ro.multiple, ro.override, ro.ignoreUndefined) :
        ft \in {<<"a", "b">>, <<"/^[ab]$/", "c">>, <<"/^z$/", "c">>}, ro \in RenameOptions}

SecondDirectives ==
    {<<>>,
     <<Directive("c", "b", FALSE, FALSE, FALSE, FALSE)>>,
     <<Directive("c", "b", FALSE, TRUE, TRUE, FALSE)>>,
     <<Directive("/^[bc]$/", "c", FALSE, FALSE, TRUE, FALSE)>>}

ScenariosRename ==
    {[schema |-> [EmptySchema EXCEPT !.renames = <<d1>> \o d2,
                                     !.childrenNull = sh = <<>>,
                                     !.children = sh,
                                     !.allowUnknown = IF sh = <<>> THEN Undef ELSE "true"],
      options |-> [DefaultOptions EXCEPT !.abortEarly = ae],
      state |-> RootState, kind |-> "object", input |-> ObjOf(ks, f)] :
        d1 \in FirstDirectives, d2 \in SecondDirectives,
        sh \in {<<>>, <<Child("b", Leaf("required", FALSE))>>},
        ae \in BOOLEAN,
        ks \in {<<"a", "b", "c">>, <<"b", "a">>, <<"c", "a">>, <<"a">>, <<"b", "c">>},
        f \in {[a |-> "v1", b |-> "v2", c |-> "v1"], [a |-> Undef, b |-> "v2", c |-> "v1"]}}

Leaves == {Leaf(r, s) : r \in LeafRules, s \in BOOLEAN}

PatternLists ==
    {<<>>,
     <<RegexPattern("/^[bc]$/", Leaf("valid1", FALSE))>>,
     <<RegexPattern("/^[bc]$/", Leaf("valid1", FALSE)),
       SchemaPattern({"c"}, Leaf("empty", FALSE))>>,
     <<SchemaPattern({"c"}, Leaf("forbidden", FALSE)),
       RegexPattern("/^[bc]$/", Leaf("valid1", FALSE))>>}

\* declared fields and patterns
ScenariosFields ==
    {[schema |-> [EmptySchema EXCEPT !.childrenNull = FALSE,
                                     !.children = <<Child("a", l)>> \o more,
                                     !.patterns = ps],
      options |-> [DefaultOptions EXCEPT !.abortEarly = ae],
      state |-> RootState, kind |-> "object", input |-> o] :
        l \in Leaves, more \in {<<>>, <<Child("b", Leaf("required", FALSE))>>},
        ps \in PatternLists, ae \in BOOLEAN,
        o \in ObjectsOver([a |-> {"-", "v1", "v2"}, b |-> {"-", "v2"}, c |-> {"-", "v1", "v2"}])}

DepLists ==
    {<<Dep(t, IF t \in {"with", "without"} THEN "c" ELSE Null, <<"a", "b">>)>> :
        t \in {"with", "without", "xor", "oxor", "or", "and", "nand"}}
    \cup {<<Dep("with", "c", <<"a">>), Dep("xor", Null, <<"a", "b">>)>>,
          <<Dep("or", Null, <<"a", "b">>), Dep("and", Null, <<"b", "c">>)>>,
          <<Dep("xor", Null, <<"c", "a", "b">>), Dep("oxor", Null, <<"c", "b", "a">>)>>,
          <<Dep("nand", Null, <<"a", "b", "c">>), Dep("and", Null, <<"c", "a", "b">>)>>,
          <<Dep("without", "a", <<"c", "b">>), Dep("with", "b", <<"c", "a">>)>>,
          <<Dep("xor", Null, <<"a", "a">>), Dep("or", Null, <<"c">>)>>}

\* dependencies over an open shape
ScenariosDeps ==
    {[schema |-> [EmptySchema EXCEPT !.dependencies = deps],
      options |-> [DefaultOptions EXCEPT !.abortEarly = ae],
      state |-> RootState, kind |-> "object", input |-> o] :
        deps \in DepLists, ae \in BOOLEAN,
        o \in ObjectsOver([a |-> {"-", "v1", Undef}, b |-> {"-", "v1"}, c |-> {"-", "v1", Undef}])}

\* type gate and fast path
ScenariosGate ==
    {[schema |-> [EmptySchema EXCEPT !.func = fn, !.renames = rs],
      options |-> DefaultOptions,
      state |-> RootState, kind |-> kd, input |-> o] :
        fn \in BOOLEAN,
        rs \in {<<>>, <<Directive("a", "b", FALSE, FALSE, FALSE, FALSE)>>},
        kd \in {"object", "function", "array", "string"},
        o \in {<<>>, <<[k |-> "a", v |-> "v1"]>>}}

\* every stage at once: a rename, a field, a pattern and dependencies
ScenariosMixed ==
    {[schema |-> [EmptySchema EXCEPT !.renames = <<Directive("c", "b", al, FALSE, FALSE, FALSE)>>,
                                     !.childrenNull = FALSE,
                                     !.children = <<Child("a", l)>>,
                                     !.patterns = ps,
                                     !.dependencies = deps],
      options |-> [DefaultOptions EXCEPT !.abortEarly = ae, !.stripUnknown = su],
      state |-> RootState, kind |-> "object", input |-> o] :
        al \in BOOLEAN,
        l \in {Leaf("required", FALSE), Leaf("valid1", FALSE), Leaf("any", TRUE)},
        ps \in {<<>>, <<RegexPattern("/^c$/", Leaf("valid1", FALSE))>>},
        deps \in {<<Dep("xor", Null, <<"a", "b">>)>>,
                  <<Dep("with", "a", <<"c">>), Dep("or", Null, <<"b", "c">>)>>},
        ae \in BOOLEAN, su \in {"false", "true"},
        o \in ObjectsOver([a |-> {"-", "v1", "v2"}, b |-> {"-", "v2"}, c |-> {"-", "v1", "v2"}])}

\* one pattern whose rule defaults, empties, strips or rejects the matched value
ScenariosPatternResult ==
    {[schema |-> [EmptySchema EXCEPT !.childrenNull = FALSE,
                                     !.children = <<Child("a", Leaf("any", FALSE))>>,
                                     !.patterns = <<RegexPattern("/^[bc]$/", l)>>],
      options |-> [DefaultOptions EXCEPT !.abortEarly = ae],
      state |-> RootState, kind |-> "object", input |-> o] :
        l \in {Leaf("empty", FALSE), Leaf("any", TRUE), Leaf("default1", FALSE),
               Leaf("valid1", FALSE)},
        ae \in BOOLEAN,
        o \in ObjectsOver([a |-> {"-", "v1"}, b |-> {"-", "v2", Undef}, c |-> {"-", "v1"}])}

Scenarios ==
    ScenariosUnknown \cup ScenariosRename \cup ScenariosFields \cup ScenariosDeps
    \cup ScenariosGate \cup ScenariosMixed \cup ScenariosPatternResult

Init ==
    \E sc \in Scenarios :
        /\ schema = sc.schema
        /\ options = sc.options
        /\ state = sc.state
        /\ heap = <<sc.input>>
        /\ value = [kind |-> sc.kind, ref |-> 1]
        /\ orig = sc.input
        /\ target = 0
        /\ errors = <<>>
        /\ unprocessed = <<>>
        /\ pc = "ready"
        /\ result = NoResult
        /\ calls = 1
        /\ prev = [input |-> <<>>, value |-> <<>>, errors |-> <<>>]
        /\ log = EmptyLog
        /\ build = NoBuild
        /\ str = NoString

Spec == Init /\ [][Next]_vars

\* ------------------------------------------------- composition, then use
\* the schema the next call is made on: the one just built, or the receiver
\* again when the call threw
Receiver == <<build.objs[IF build.built # 0 THEN build.built ELSE build.this]>>

\* the record of a call: the heap it left, what it returned, the heap before it
Called(op, r, arg) ==
    [objs |-> r.objs, this |-> 1, built |-> r.built, before |-> Receiver,
     n |-> build.n + 1, op |-> op, arg |-> arg]

Composing == pc = "build" /\ build.n < MaxBuild

validation == <<schema, options, state, heap, value, target, errors, unprocessed,
                pc, result, calls, orig, prev, log>>

FieldMap(kind, entries) == [kind |-> kind, entries |-> entries]

BadDeclaration == [rule |-> "bad", strip |-> FALSE]

FieldMaps ==
    {FieldMap("none", <<>>), FieldMap("schema", <<>>), FieldMap("map", <<>>),
     FieldMap("map", <<Child("b", Leaf("ref.a", FALSE)), Child("a", Leaf("any", FALSE))>>),
     FieldMap("map", <<Child("a", Leaf("any", FALSE)), Child("b", Leaf("valid1", FALSE)),
                       Child("c", Leaf("any", FALSE))>>),
     FieldMap("map", <<Child("a", Leaf("valid1", FALSE))>>),
     FieldMap("map", <<Child("b", Leaf("ref.a", FALSE))>>),
     FieldMap("map", <<Child("a", Leaf("ref.b", FALSE))>>),
     FieldMap("map", <<Child("a", Leaf("ref.a", FALSE))>>),
     FieldMap("map", <<Child("c", Leaf("ref.b", FALSE)), Child("d", Leaf("ref.c", FALSE))>>),
     FieldMap("map", <<Child("c", Leaf("any", TRUE)), Child("a", BadDeclaration)>>)}

CallKeys ==
    /\ Composing
    /\ UNCHANGED <<validation, str>>
    /\ \E fm \in FieldMaps : build' = Called("keys", Object_keys(Receiver, 1, fm), fm)

CallPattern ==
    /\ Composing
    /\ UNCHANGED <<validation, str>>
    /\ \E arg \in {RegexPattern("/^c$/", Leaf("valid1", FALSE)),
                  RegexPattern("/^[ab]$/g", Leaf("any", FALSE)),
                  RegexPattern("/^[bc]$/", BadDeclaration)} :
           build' = Called("pattern", Object_pattern(Receiver, 1, arg), arg)

CallRename ==
    /\ Composing
    /\ UNCHANGED <<validation, str>>
    /\ \E arg \in {Directive("a", "b", FALSE, FALSE, FALSE, FALSE),
                  Directive("a", "c", TRUE, FALSE, TRUE, FALSE),
                  Directive("c", "c", FALSE, FALSE, FALSE, FALSE)} :
           build' = Called("rename", Object_rename(Receiver, 1, arg), arg)

CallDependency ==
    /\ Composing
    /\ UNCHANGED <<validation, str>>
    /\ \E arg \in {[dep |-> Dep("with", "a", <<"b">>), strings |-> TRUE],
                  [dep |-> Dep("xor", Null, <<"a", "b">>), strings |-> TRUE],
                  [dep |-> Dep("or", Null, <<"a", "b">>), strings |-> FALSE]} :
           build' = Called("dependency", Object_dependency(Receiver, 1, arg), arg)

CallUnknown ==
    /\ Composing
    /\ UNCHANGED <<validation, str>>
    /\ \E allow \in {Undef, "false"} :
          build' = Called("unknown", Object_unknown(Receiver, 1, allow), allow)

CallApply ==
    /\ Composing
    /\ UNCHANGED <<validation, str>>
    /\ \E arg \in {[names |-> <<"a">>, fn |-> "required"],
                  [names |-> <<"a", "b">>, fn |-> "forbidden"],
                  [names |-> <<"b">>, fn |-> "optional"]} :
           build' = Called("apply", Object_applyFunctionToChildren(Receiver, 1, arg), arg)

\* the built schema validates an input
Validate ==
    /\ pc = "build"
    /\ build.n >= 1
    /\ build.built # 0
    /\ \E ae \in BOOLEAN, o \in {<<[k |-> "a", v |-> "v1"], [k |-> "b", v |-> "v1"]>>,
                                  <<[k |-> "b", v |-> "v2"], [k |-> "c", v |-> "v1"]>>} :
          /\ schema' = build.objs[build.built]
          /\ options' = [DefaultOptions EXCEPT !.abortEarly = ae]
          /\ heap' = <<o>>
          /\ orig' = o
    /\ pc' = "ready"
    /\ UNCHANGED <<str, build, state, value, target, errors, unprocessed, result, calls,
                   prev, log>>

NextBuild ==
    \/ CallKeys \/ CallPattern \/ CallRename \/ CallDependency \/ CallUnknown
    \/ CallApply \/ Validate
    \/ Enter \/ Rename \/ Fields \/ Patterns \/ Unknown \/ Dependencies \/ Again

InitBuild ==
    /\ schema = EmptySchema
    /\ options = DefaultOptions
    /\ state = RootState
    /\ heap = <<>>
    /\ value = [kind |-> "object", ref |-> 1]
    /\ orig = <<>>
    /\ target = 0
    /\ errors = <<>>
    /\ unprocessed = <<>>
    /\ pc = "build"
    /\ result = NoResult
    /\ calls = 1
    /\ prev = [input |-> <<>>, value |-> <<>>, errors |-> <<>>]
    /\ log = EmptyLog
    /\ build = [objs |-> <<EmptySchema>>, this |-> 1, built |-> 1, before |-> <<>>,
                n |-> 0, op |-> "", arg |-> <<>>]
    /\ str = NoString

SpecBuild == InitBuild /\ [][NextBuild]_vars

\* ------------------------------------------- one schema, several calls
\* The caller validates the same input again with the same schema object.
Repeat ==
    /\ pc = "done"
    /\ calls < MaxCalls
    /\ calls' = calls + 1
    /\ prev' = [input |-> orig, value |-> heap[result.value], errors |-> result.errors]
    /\ heap' = <<orig>>
    /\ value' = [value EXCEPT !.ref = 1]
    /\ target' = 0
    /\ errors' = <<>>
    /\ unprocessed' = <<>>
    /\ result' = NoResult
    /\ log' = EmptyLog
    /\ pc' = "ready"
    /\ UNCHANGED <<str, build, schema, options, state, orig>>

NextCalls ==
    Enter \/ Rename \/ Fields \/ Patterns \/ Unknown \/ Dependencies \/ Again \/ Repeat

\* the object under key o of an outer object that also holds a
OuterState ==
    [path |-> <<"o">>,
     ancestors |-> <<<<[k |-> "a", v |-> "v1"], [k |-> "o", v |-> "object"]>>>>]

\* the schema keys(fieldMap) builds from Joi.object()
Composed(entries) == Object_keys(<<EmptySchema>>, 1, FieldMap("map", entries)).objs[2]

StringObjects ==
    {ObjOf(Filter(<<"a", "b", "c">>, {k \in Keys : f[k] = "-"}), f) :
        f \in {g \in [Keys -> {"-", "v1", "abcd1234", "abc1"}] : g["c"] \in {"-", "v1"}}}

\* fields and patterns that consult a sibling or the enclosing object by reference
ScenariosRef ==
    {[schema |-> [Composed(fm) EXCEPT !.patterns = ps],
      options |-> [DefaultOptions EXCEPT !.abortEarly = ae],
      state |-> st, kind |-> "object", input |-> o] :
        fm \in {<<Child("b", Leaf("ref.a", FALSE)), Child("a", Leaf(r, FALSE))>> :
                   r \in {"min8", "default1", "empty", "valid1"}}
               \cup {<<Child("b", Leaf("ref.a", FALSE)), Child("a", Leaf("any", TRUE))>>,
                     <<Child("a", Leaf("any", FALSE)), Child("b", Leaf("ref.up.a", FALSE))>>},
        ps \in {<<>>, <<RegexPattern("/^c$/", Leaf("ref.up.a", FALSE))>>,
                <<RegexPattern("/^c$/", Leaf("ref.a", FALSE))>>},
        st \in {RootState, OuterState}, ae \in BOOLEAN, o \in StringObjects}

\* rename directives whose source is a regular expression, with and without g
ScenariosRegex ==
    {[schema |-> [EmptySchema EXCEPT !.renames =
                      <<Directive(re, "c", ro.alias, FALSE, ro.override, ro.ignoreUndefined)>>,
                                     !.childrenNull = sh = <<>>,
                                     !.children = sh,
                                     !.allowUnknown = IF sh = <<>> THEN Undef ELSE "true"],
      options |-> [DefaultOptions EXCEPT !.abortEarly = ae],
      state |-> RootState, kind |-> "object", input |-> o] :
        re \in {"/^[ab]$/", "/^[ab]$/g"}, ro \in RenameOptions,
        sh \in {<<>>, <<Child("c", Leaf("required", FALSE))>>},
        ae \in BOOLEAN,
        o \in ObjectsOver([a |-> {"-", "v1"}, b |-> {"-", "v2", Undef}, c |-> {"-", "v1"}])}

InitCalls ==
    \E sc \in ScenariosRef \cup ScenariosRegex :
        /\ schema = sc.schema
        /\ options = sc.options
        /\ state = sc.state
        /\ heap = <<sc.input>>
        /\ value = [kind |-> sc.kind, ref |-> 1]
        /\ orig = sc.input
        /\ target = 0
        /\ errors = <<>>
        /\ unprocessed = <<>>
        /\ pc = "ready"
        /\ result = NoResult
        /\ calls = 1
        /\ prev = [input |-> <<>>, value |-> <<>>, errors |-> <<>>]
        /\ log = EmptyLog
        /\ build = NoBuild
        /\ str = NoString

SpecCalls == InitCalls /\ [][NextCalls]_vars

\* ------------------------------------------------ strings (string/index.js)
\* A string is the sequence of its UTF-16 code units; value.length is the
\* length of the sequence.  "eacute" and "Eacute" are U+00E9 and U+00C9,
\* "acute" is the combining accent U+0301, "sp" is the space.
Str(units) == [kind |-> "string", units |-> units]

\* Buffer.byteLength(value, encoding) for utf8, utf16le and latin1: the
\* accented letters and the combining accent take two bytes in UTF-8
RECURSIVE ByteLength(_, _)
ByteLength(units, encoding) ==
    IF units = <<>> THEN 0
    ELSE (CASE encoding = "utf8" ->
                  (IF Head(units) \in {"eacute", "Eacute", "acute"} THEN 2 ELSE 1)
            [] encoding = "utf16le" -> 2
            [] OTHER                -> 1)
         + ByteLength(Tail(units), encoding)

\* value.normalize(form): NFD splits an accented letter, NFC joins it
RECURSIVE Normalize(_, _)
Normalize(units, form) ==
    IF units = <<>> THEN <<>>
    ELSE IF form = "NFD" /\ Head(units) = "eacute"
         THEN <<"e", "acute">> \o Normalize(Tail(units), form)
    ELSE IF form = "NFD" /\ Head(units) = "Eacute"
         THEN <<"E", "acute">> \o Normalize(Tail(units), form)
    ELSE IF form = "NFC" /\ Len(units) >= 2 /\ Head(units) = "e" /\ units[2] = "acute"
         THEN <<"eacute">> \o Normalize(Tail(Tail(units)), form)
    ELSE IF form = "NFC" /\ Len(units) >= 2 /\ Head(units) = "E" /\ units[2] = "acute"
         THEN <<"Eacute">> \o Normalize(Tail(Tail(units)), form)
    ELSE <<Head(units)>> \o Normalize(Tail(units), form)

\* value.toLocaleUpperCase() / value.toLocaleLowerCase()
Casing(units, direction) ==
    [i \in 1..Len(units) |->
        IF direction = "upper"
        THEN CASE units[i] = "a" -> "A" [] units[i] = "e" -> "E"
               [] units[i] = "eacute" -> "Eacute" [] OTHER -> units[i]
        ELSE CASE units[i] = "A" -> "a" [] units[i] = "E" -> "e"
               [] units[i] = "Eacute" -> "eacute" [] OTHER -> units[i]]

RECURSIVE TrimStart(_)
TrimStart(units) ==
    IF units # <<>> /\ Head(units) = "sp" THEN TrimStart(Tail(units)) ELSE units

RECURSIVE TrimEnd(_)
TrimEnd(units) ==
    IF units # <<>> /\ units[Len(units)] = "sp"
    THEN TrimEnd(SubSeq(units, 1, Len(units) - 1))
    ELSE units

\* value.trim()
Trim(units) == TrimEnd(TrimStart(units))

\* value.replace(pattern, replacement) for a pattern that matches one code
\* unit: every occurrence with the g flag, the first one without
RECURSIVE Replace(_, _)
Replace(units, r) ==
    IF units = <<>> THEN <<>>
    ELSE IF Head(units) = r.pattern
         THEN r.replacement \o (IF r.global THEN Replace(Tail(units), r) ELSE Tail(units))
    ELSE <<Head(units)>> \o Replace(Tail(units), r)

RECURSIVE Replacements(_, _)
Replacements(units, rs) ==
    IF rs = <<>> THEN units ELSE Replacements(Replace(units, Head(rs)), Tail(rs))

\* JoiDate._isIsoDate and new Date(value).toISOString(): the year 2019
IsIsoDate(units) == units = <<"2", "0", "1", "9">>

ToISOString(units) ==
    <<"2", "0", "1", "9", "-", "0", "1", "-", "0", "1", "T", "0", "0", ":", "0", "0",
      ":", "0", "0", ".", "0", "0", "0", "Z">>

NoRule == [limit |-> -1, encoding |-> ""]

\* the steps of _coerce before the truncation
CoerceNormalize(sch, units) ==
    IF sch.normalize # "" THEN Normalize(units, sch.normalize) ELSE units

CoerceCase(sch, units) == IF sch.direction # "" THEN Casing(units, sch.direction) ELSE units

CoerceTrim(sch, units) == IF sch.trim = "enabled" THEN Trim(units) ELSE units

CoerceReplace(sch, units) == Replacements(units, sch.replacements)

CoerceHex(sch, units) ==
    IF sch.hex = "byteAligned" /\ Len(units) % 2 # 0 THEN <<"0">> \o units ELSE units

\* the longest prefix whose byte length under the rule's encoding is within the limit
RECURSIVE SliceBytes(_, _)
SliceBytes(units, rule) ==
    IF ByteLength(units, rule.encoding) <= rule.limit THEN units
    ELSE SliceBytes(SubSeq(units, 1, Len(units) - 1), rule)

\* "value.slice(0, rule.args.limit)"
Slice(units, rule) ==
    SubSeq(units, 1, IF rule.limit < Len(units) THEN rule.limit ELSE Len(units))

\* _coerce(value, state, options), lines 68-128
_coerce(sch, val) ==
    IF val.kind # "string" THEN [value |-> val, errors |-> <<>>]
    ELSE LET v == CoerceHex(sch, CoerceReplace(sch, CoerceTrim(sch,
                      CoerceCase(sch, CoerceNormalize(sch, val.units)))))
             valid == IsIsoDate(v)
             w == IF sch.isoDate THEN ToISOString(v) ELSE v
         IN  IF sch.isoDate /\ ~valid
             THEN [value |-> Str(v),
                   errors |-> <<CreateError("string.isoDate", <<>>, <<>>)>>]
             ELSE [value |-> Str(IF sch.truncate /\ sch.max # NoRule
                                 THEN Slice(w, sch.max) ELSE w),
                   errors |-> <<>>]

\* _base(value, state, options), lines 130-137
String_base(val) ==
    IF val.kind = "string" THEN <<>> ELSE <<CreateError("string.base", <<>>, <<>>)>>

\* _rules.length for the rule max(limit, encoding), lines 635-643: the operator
\* of max is '<='
Rules_length(val, rule) ==
    LET length == IF rule.encoding # "" THEN ByteLength(val.units, rule.encoding)
                  ELSE Len(val.units)
    IN  IF length <= rule.limit THEN <<>>
        ELSE <<CreateError("string.max", <<rule.limit>>, <<>>)>>

\* the object validator is idle while a string is validated
Idle == UNCHANGED <<schema, options, state, heap, value, target, errors, unprocessed,
                    pc, result, calls, orig, prev, log, build>>

\* the call coerces the value first
Coerce ==
    /\ str.pc = "coerce"
    /\ Idle
    /\ LET r == _coerce(str.schema, str.input)
       IN  str' = [str EXCEPT !.value = r.value, !.errors = r.errors,
                              !.pc = IF r.errors # <<>> THEN "done" ELSE "base"]

\* then tests its type
Base ==
    /\ str.pc = "base"
    /\ Idle
    /\ LET e == String_base(str.value)
       IN  str' = [str EXCEPT !.errors = e,
                              !.pc = IF e # <<>> THEN "done" ELSE "rules"]

\* then runs the max rule, when the schema has one
Length ==
    /\ str.pc = "rules"
    /\ Idle
    /\ str' = [str EXCEPT !.errors = IF str.schema.max # NoRule
                                     THEN Rules_length(str.value, str.schema.max)
                                     ELSE <<>>,
                          !.pc = "done"]

NextString == Coerce \/ Base \/ Length

\* Joi.string() followed by the calls that set the rules before the truncation
Plain ==
    [normalize |-> "", direction |-> "", trim |-> "none", replacements |-> <<>>,
     hex |-> "none", isoDate |-> FALSE, truncate |-> FALSE, max |-> NoRule]

PreSteps ==
    {Plain,
     [Plain EXCEPT !.normalize = "NFD"],
     [Plain EXCEPT !.direction = "upper"],
     [Plain EXCEPT !.trim = "enabled"],
     [Plain EXCEPT !.replacements =
         <<[pattern |-> "a", global |-> TRUE, replacement |-> <<"eacute", "eacute">>]>>],
     [Plain EXCEPT !.hex = "byteAligned"],
     [Plain EXCEPT !.isoDate = TRUE],
     [Plain EXCEPT !.normalize = "NFD", !.direction = "upper", !.trim = "enabled",
                   !.hex = "byteAligned",
                   !.replacements =
         <<[pattern |-> "a", global |-> TRUE, replacement |-> <<"eacute", "eacute">>]>>],
     [Plain EXCEPT !.normalize = "NFC", !.direction = "lower", !.trim = "disabled",
                   !.hex = "loose",
                   !.replacements =
         <<[pattern |-> "a", global |-> FALSE, replacement |-> <<>>]>>],
     [Plain EXCEPT !.trim = "enabled", !.hex = "byteAligned",
                   !.replacements =
         <<[pattern |-> "a", global |-> TRUE, replacement |-> <<"sp">>],
           [pattern |-> "eacute", global |-> FALSE, replacement |-> <<"e", "acute">>]>>]}

\* ... followed by truncate() or not, and by max(limit, encoding) or not
StringSchemas ==
    {[p EXCEPT !.truncate = t, !.max = m] :
        p \in PreSteps, t \in BOOLEAN,
        m \in {NoRule} \cup [limit : 0..MaxLimit,
                             encoding : {"", "utf8", "utf16le", "latin1"}]}

\* the strings over three letters, a year, and a value that is not a string
StringValues ==
    {Str(u) : u \in UNION {[1..n -> {"a", "eacute", "sp"}] : n \in 0..MaxLen}}
    \cup {Str(<<"2", "0", "1", "9">>), [kind |-> "number", units |-> <<>>]}

InitString ==
    /\ schema = EmptySchema
    /\ options = DefaultOptions
    /\ state = RootState
    /\ heap = <<>>
    /\ value = [kind |-> "object", ref |-> 1]
    /\ orig = <<>>
    /\ target = 0
    /\ errors = <<>>
    /\ unprocessed = <<>>
    /\ pc = "idle"
    /\ result = NoResult
    /\ calls = 1
    /\ prev = [input |-> <<>>, value |-> <<>>, errors |-> <<>>]
    /\ log = EmptyLog
    /\ build = NoBuild
    /\ \E sch \in StringSchemas, val \in StringValues :
          str = [pc |-> "coerce", schema |-> sch, input |-> val, value |-> val,
                 errors |-> <<>>]

SpecString == InitString /\ [][NextString]_vars

\* =============================================================== claims
Done == pc = "done"

Out == heap[result.value]

Declared(sch) == {sch.children[i].key : i \in 1..Len(sch.children)}

RenameCodes == {"object.rename.multiple", "object.rename.override",
                "object.rename.regex.multiple", "object.rename.regex.override"}

ErrorsAt(errs, path) == {i \in 1..Len(errs) : errs[i].path = path}

ErrorsCoded(errs, codes) == {i \in 1..Len(errs) : errs[i].code \in codes}

DepFails(dep, obj) ==
    DepMethod(dep, IF dep.key # Null THEN Reach(obj, dep.key) ELSE Null, obj).code # ""

\* unknown keys are rejected unless the schema, or else the option, allows them
UnknownForbidden ==
    /\ schema.allowUnknown # "true"
    /\ schema.allowUnknown = Undef => ~options.allowUnknown
    /\ ~schema.childrenNull \/ schema.patterns # <<>>

\* the declared fields whose value, as left by the renames, violates the field's rule
FieldFailures ==
    {i \in 1..Len(schema.children) :
        LeafFails(schema.children[i].schema, Get(log.renamed, schema.children[i].key))}

\* the (key, pattern) pairs where an undeclared key violates the rule of a matching pattern
PatternFailures ==
    {ki \in (SeqToSet(KeysOf(log.shaped)) \ Declared(schema)) \X (1..Len(schema.patterns)) :
        /\ PatternTest(schema.patterns[ki[2]], ki[1])
        /\ LeafFails(schema.patterns[ki[2]].rule, Get(log.shaped, ki[1]))}

DepFailures ==
    {i \in 1..Len(schema.dependencies) : DepFails(schema.dependencies[i], heap[target])}

\* C1: with abortEarly a validate call returns at most one error, and no
\* stage runs after the stage that found the violation.
C1_AbortEarlyOneError ==
    (Done /\ options.abortEarly) =>
        /\ Len(result.errors) <= 1
        /\ ErrorsCoded(result.errors, {"object.allowUnknown"}) # {} => log.evaluated = 0

\* C2: with abortEarly false the call never stops early: every rename directive is
\* processed, every declared field is validated, every stage runs, and the number
\* of errors is the number of violated constraints; a failing field never hides
\* the failure of a sibling.
C2_FullAggregation ==
    (Done /\ ~options.abortEarly /\ log.copied) =>
        /\ log.renameOk
        /\ log.processed = Len(schema.renames)
        /\ ~NoShape(schema) =>
              /\ log.visited = [i \in 1..Len(schema.children) |-> schema.children[i].key]
              /\ log.evaluated = Len(schema.dependencies)
              /\ {"patterns", "unknown", "deps"} \subseteq SeqToSet(log.ran)
        /\ Len(result.errors) =
              Cardinality(ErrorsCoded(result.errors, RenameCodes))
              + Cardinality(FieldFailures) + Cardinality(PatternFailures)
              + (IF UnknownForbidden THEN Len(unprocessed) ELSE 0)
              + Cardinality(DepFailures)
        /\ \A i \in FieldFailures :
              ErrorsAt(result.errors, Append(state.path, schema.children[i].key)) # {}

\* a call without abortEarly that reports a failing field, a failing sibling
\* field and a failing dependency
C2_Witness ==
    /\ Done /\ ~options.abortEarly
    /\ Cardinality(FieldFailures) >= 1
    /\ Cardinality(PatternFailures) >= 1
    /\ Cardinality(DepFailures) >= 1
    /\ Cardinality(ErrorsCoded(result.errors, RenameCodes)) >= 1

\* the 'not allowed' errors of a list of keys, in order
NotAllowed(keys) ==
    [i \in 1..Len(keys) |->
        CreateError("object.allowUnknown", <<keys[i]>>, Append(state.path, keys[i]))]

RECURSIVE SelectCoded(_, _)
SelectCoded(errs, codes) ==
    IF errs = <<>> THEN <<>>
    ELSE IF Head(errs).code \in codes THEN <<Head(errs)>> \o SelectCoded(Tail(errs), codes)
    ELSE SelectCoded(Tail(errs), codes)

OnlyFieldA ==
    /\ schema.children = <<Child("a", Leaf("any", FALSE))>>
    /\ ~schema.childrenNull
    /\ schema.patterns = <<>> /\ schema.dependencies = <<>> /\ schema.renames = <<>>

InputAC == orig = <<[k |-> "a", v |-> "v1"], [k |-> "c", v |-> "v2"]>>

\* C3: for a schema declaring only a and the input {a:1, c:2}: default options give
\* exactly one 'not allowed' error whose path ends in c; unknown(true) keeps c and
\* gives no error; stripUnknown removes c and gives no error.  In general one
\* 'not allowed' error is emitted per remaining undeclared key, with
\* path = outer path + [key].
C3_UnknownKeys ==
    (Done /\ "unknown" \in SeqToSet(log.ran)) =>
        /\ SelectCoded(result.errors, {"object.allowUnknown"}) =
              (IF UnknownForbidden THEN NotAllowed(unprocessed) ELSE <<>>)
        /\ \A k \in SeqToSet(unprocessed) : k \notin Declared(schema) /\ Has(Out, k)
        /\ (OnlyFieldA /\ InputAC /\ calls = 1) =>
              /\ (options = DefaultOptions /\ schema.allowUnknown = Undef) =>
                    result.errors = NotAllowed(<<"c">>)
              /\ (options = DefaultOptions /\ schema.allowUnknown = "true") =>
                    result.errors = <<>> /\ Out = orig
              /\ (options = [DefaultOptions EXCEPT !.stripUnknown = "true"]
                  /\ schema.allowUnknown = Undef) =>
                    result.errors = <<>> /\ Out = <<[k |-> "a", v |-> "v1"]>>

\* the input {a:1, c:2} validated below an outer path with default options
C3_Witness ==
    /\ Done /\ OnlyFieldA /\ InputAC /\ calls = 1
    /\ options = DefaultOptions /\ schema.allowUnknown = Undef
    /\ state.path # <<>>
    /\ Len(result.errors) = 1

\* C4: no validate call mutates the caller's input object.
C4_InputNotMutated == heap[value.ref] = orig

\* a finished call whose working copy differs from the input
C4_Witness == Done /\ log.copied /\ Out # orig /\ heap[value.ref] = orig

\* C5 (as claimed): whenever the value passes the type gate, the returned value
\* is not reference-identical to the input.
C5_NeverSameReference ==
    (Done /\ ~TypeGateFails(schema, value)) => result.value # value.ref

\* C5 (amended): when the value passes the type gate and the schema has a rename,
\* a dependency, declared children or a pattern, the working copy and the returned
\* value are not reference-identical to the input; a schema with none of these
\* returns the input itself.
C5_CopyUnlessFastPath ==
    ~TypeGateFails(schema, value) =>
        /\ ~FastPath(schema) =>
              /\ target # 0 => target # value.ref
              /\ Done => result.value # value.ref
        /\ (FastPath(schema) /\ Done) => result.value = value.ref

\* a finished call that copied its input and changed nothing in the copy
C5_Witness ==
    Done /\ ~TypeGateFails(schema, value) /\ ~FastPath(schema) /\ Out = orig

FirstMatch(patterns, k) ==
    patterns[CHOOSE i \in 1..Len(patterns) :
                /\ PatternTest(patterns[i], k)
                /\ \A j \in 1..(i - 1) : ~PatternTest(patterns[j], k)]

\* C6: a key left unprocessed by the declared fields is validated against the rule
\* of the first matching pattern only: its value and its errors are those of that
\* rule, later matching patterns contribute nothing.
C6_FirstMatchWins ==
    pc = "unknown" =>
        \A k \in SeqToSet(KeysOf(log.shaped)) \ Declared(schema) :
            (\E i \in 1..Len(schema.patterns) : PatternTest(schema.patterns[i], k)) =>
                LET r == LeafValidate(FirstMatch(schema.patterns, k).rule, Get(log.shaped, k),
                                      [path |-> Append(state.path, k), ancestors |-> <<>>],
                                      options)
                IN  /\ Get(heap[target], k) = r.value
                    /\ Cardinality(ErrorsAt(errors, Append(state.path, k))) = Len(r.errors)

\* C7: under unknown(true) every undeclared key of the input is retained and no
\* 'not allowed' error is emitted, whatever stripUnknown, skipFunctions and
\* allowUnknown are.
C7_UnknownTrueKeepsKeys ==
    (Done /\ schema.allowUnknown = "true" /\ "unknown" \in SeqToSet(log.ran)) =>
        /\ \A k \in SeqToSet(KeysOf(log.shaped)) \ Declared(schema) : Has(Out, k)
        /\ ErrorsCoded(result.errors, {"object.allowUnknown"}) = {}

\* C8: within one call a rename target is written at most once by the rename
\* directives, unless the writing directive sets multiple.
C8_SingleWrite ==
    \A i, j \in 1..Len(log.writes) :
        (i < j /\ log.writes[i].to = log.writes[j].to) => log.writes[j].multiple

ChildKeys(sch) == [i \in 1..Len(sch.children) |-> sch.children[i].key]

\* C9: a rename violation under abortEarly halts the call at that directive: that
\* directive and the later ones are not applied, no later stage runs and exactly
\* that error is returned.  Without abortEarly every directive is processed, the
\* violation is one of the errors and the later stages run on the renamed copy.
C9_RenameViolation ==
    (Done /\ log.copied /\ ErrorsCoded(result.errors, RenameCodes) # {}) =>
        IF options.abortEarly
        THEN /\ Len(result.errors) = 1
             /\ log.ran = <<"copy", "rename">>
             /\ log.halted >= 1
             /\ \A i \in SeqToSet(log.applied) : i < log.halted
             /\ Out = _rename(SubSeq(schema.renames, 1, log.halted - 1), orig, state,
                              options, <<>>).target
        ELSE /\ log.halted = 0
             /\ log.processed = Len(schema.renames)
             /\ \A i \in 1..Len(schema.renames) :
                   ~schema.renames[i].ignoreUndefined => i \in SeqToSet(log.applied)
             /\ ~NoShape(schema) =>
                   /\ {"patterns", "unknown", "deps"} \subseteq SeqToSet(log.ran)
                   /\ log.visited = ChildKeys(schema)
                   /\ log.evaluated = Len(schema.dependencies)
                   /\ \A i \in FieldFailures :
                         ErrorsAt(result.errors,
                                  Append(state.path, schema.children[i].key)) # {}

\* a call under abortEarly halted by its second rename directive
C9_Witness ==
    Done /\ options.abortEarly /\ log.halted = 2 /\ log.applied = <<1>> /\ Out # orig

AliasOverride(d) ==
    ~IsRegExp(d.from) /\ d.alias /\ d.override /\ ~d.multiple /\ ~d.ignoreUndefined

\* C10: for a single literal directive from -> to with alias and override, a value
\* holding both keys comes out with to = from's value and from retained, without a
\* rename error; validating the result again returns the same value.
C10_AliasOverride ==
    (Done /\ log.copied /\ Len(schema.renames) = 1 /\ AliasOverride(schema.renames[1])) =>
        LET d == schema.renames[1]
        IN  /\ (Has(orig, d.from) /\ Has(orig, d.to)) =>
                  /\ ErrorsCoded(result.errors, RenameCodes) = {}
                  /\ Get(Out, d.to) = Get(orig, d.from)
                  /\ Has(Out, d.from)
                  /\ Get(Out, d.from) = Get(orig, d.from)
            /\ (calls > 1 /\ Has(prev.input, d.from) /\ Has(prev.input, d.to)) =>
                  Out = prev.value

\* the second validation of a value that first held different values under
\* from and to
C10_Witness ==
    /\ Done /\ calls = 2 /\ Len(schema.renames) = 1 /\ AliasOverride(schema.renames[1])
    /\ Has(prev.input, "a") /\ Has(prev.input, "b")
    /\ Get(prev.input, "a") # Get(prev.input, "b")
    /\ Get(prev.input, "a") # Undef
    /\ Get(Out, "b") = Get(prev.input, "a")
    /\ Out = prev.value

\* ------------------------------------------------------ C11, C12
\* the peers of a constraint that resolve to a value other than undefined
PeersPresent(dep, obj) == SelectSeq(dep.peers, LAMBDA p : Get(obj, p) # Undef)

KeyPresent(dep, obj) == dep.key # Null /\ Get(obj, dep.key) # Undef

\* the rule of a constraint, by the number of its peers that are present
Violated(dep, obj) ==
    LET n == Len(PeersPresent(dep, obj))
        m == Len(dep.peers)
    IN  CASE dep.type = "with"    -> KeyPresent(dep, obj) /\ n < m
          [] dep.type = "without" -> KeyPresent(dep, obj) /\ n > 0
          [] dep.type = "and"     -> 0 < n /\ n < m
          [] dep.type = "nand"    -> n = m
          [] dep.type = "or"      -> n = 0
          [] dep.type = "xor"     -> n # 1
          [] dep.type = "oxor"    -> n > 1

DepsRan == Done /\ "deps" \in SeqToSet(log.ran)

\* the errors the dependency stage appended to those of the earlier stages
DepErrors ==
    SubSeq(result.errors,
           Len(result.errors) - Cardinality({i \in 1..Len(log.outcomes) :
                                                log.outcomes[i].code # ""}) + 1,
           Len(result.errors))

DepPath(dep) == IF dep.key # Null THEN Append(state.path, dep.key) ELSE state.path

\* C11: every evaluated dependency constraint reports a failure exactly when its
\* rule is violated in the final working copy (with: key present and a peer
\* absent; without: key present and a peer present; and: some but not all peers;
\* nand: all peers; or: no peer; xor: not exactly one; oxor: more than one), and
\* each failure is one error of the call; with and without never fail when their
\* key is absent.
C11_DependencyRules ==
    DepsRan =>
        /\ \A i \in 1..log.evaluated :
              /\ (log.outcomes[i].code # "") <=> Violated(schema.dependencies[i], Out)
              /\ (schema.dependencies[i].type \in {"with", "without"}
                  /\ ~KeyPresent(schema.dependencies[i], Out)) => log.outcomes[i].code = ""
        /\ Len(DepErrors) <= Len(result.errors)
        /\ [i \in 1..Len(DepErrors) |-> DepErrors[i].code] =
              SelectSeq([i \in 1..Len(log.outcomes) |-> log.outcomes[i].code],
                        LAMBDA c : c # "")

\* a call that evaluated a failing 'with' and a passing 'without' whose key is
\* held with the value undefined
C11_Witness ==
    /\ DepsRan /\ log.evaluated = 2
    /\ schema.dependencies[1].type = "without" /\ schema.dependencies[2].type = "with"
    /\ Has(Out, "a") /\ ~KeyPresent(schema.dependencies[1], Out)
    /\ Violated(schema.dependencies[2], Out)
    /\ Len(result.errors) = 1

XorAB == schema.dependencies = <<Dep("xor", Null, <<"a", "b">>)>> /\ FastPath([schema EXCEPT !.dependencies = <<>>])

\* C12: xor succeeds when exactly one peer is present, fails with object.missing
\* when none is, and fails with object.xor when two or more are, naming exactly
\* the present peers in declaration order; xor(a,b) on {a:1,b:2} names a and b,
\* on {} reports missing, on {a:1} or {b:2} alone reports nothing.
C12_Xor ==
    DepsRan =>
        /\ \A i \in 1..log.evaluated :
              schema.dependencies[i].type = "xor" =>
                 LET dep == schema.dependencies[i]
                     present == PeersPresent(dep, Out)
                 IN  /\ Len(present) = 1 => log.outcomes[i].code = ""
                     /\ Len(present) = 0 => log.outcomes[i].code = "object.missing"
                     /\ Len(present) >= 2 =>
                           /\ log.outcomes[i].code = "object.xor"
                           /\ log.outcomes[i].ctx = present
                     /\ log.outcomes[i].code # "" =>
                           \E j \in 1..Len(result.errors) :
                               result.errors[j] =
                                   CreateError(log.outcomes[i].code, log.outcomes[i].ctx,
                                               state.path)
        /\ (XorAB /\ calls = 1) =>
              /\ orig = <<[k |-> "a", v |-> "v1"], [k |-> "b", v |-> "v1"]>> =>
                    result.errors = <<CreateError("object.xor", <<"a", "b">>, state.path)>>
              /\ orig = <<>> =>
                    /\ Len(result.errors) = 1
                    /\ result.errors[1].code = "object.missing"
              /\ orig \in {<<[k |-> "a", v |-> "v1"]>>, <<[k |-> "b", v |-> "v1"]>>} =>
                    result.errors = <<>>

\* xor over three peers declared c, a, b with a and b present
C12_Witness ==
    /\ DepsRan /\ log.evaluated >= 1
    /\ schema.dependencies[1] = Dep("xor", Null, <<"c", "a", "b">>)
    /\ log.outcomes[1] = [code |-> "object.xor", ctx |-> <<"a", "b">>]
    /\ KeysOf(Out) = <<"a", "b">>

\* ------------------------------------------------------ C13, C14, C15
\* position of a key in a children list (0 when the key is not declared)
Pos(children, key) ==
    IF \E i \in 1..Len(children) : children[i].key = key
    THEN CHOOSE i \in 1..Len(children) : children[i].key = key
    ELSE 0

\* every field that refers to a declared sibling comes after that sibling
ReferencedFirst(children) ==
    \A i, j \in 1..Len(children) :
        children[j].key \in RefRoots(children[i].schema) => j < i

KeysCalled == build.op = "keys" /\ build.built # 0 /\ build.arg.kind = "map"

\* C13: in the children of every schema the keys() calls built, a field whose
\* schema refers to a sibling key is positioned after that sibling, whatever the
\* order inside the field map and whichever call declared which field, and _base
\* visits the fields in that order; {b: <references a>, a: <plain>} visits a
\* before b.
C13_ReferencedFirst ==
    /\ \A r \in 1..Len(build.objs) : ReferencedFirst(build.objs[r].children)
    /\ ReferencedFirst(schema.children)
    /\ log.visited = SubSeq(ChildKeys(schema), 1, Len(log.visited))
    /\ (pc \in {"patterns", "unknown", "deps"}
        \/ (Done /\ "deps" \in SeqToSet(log.ran))) => log.visited = ChildKeys(schema)
    /\ (KeysCalled /\ build.before[1].childrenNull
        /\ build.arg.entries = <<Child("b", Leaf("ref.a", FALSE)),
                                 Child("a", Leaf("any", FALSE))>>) =>
           ChildKeys(build.objs[build.built]) = <<"a", "b">>

\* a validation that visited a before b, b declared by the first keys() call
\* with a reference to a, a declared by the second
C13_Witness ==
    /\ Done /\ build.n = 2 /\ KeysCalled
    /\ ChildKeys(build.before[1]) = <<"b">>
    /\ build.arg.entries = <<Child("a", Leaf("valid1", FALSE))>>
    /\ log.visited = <<"a", "b">>

NoReferences(children) == \A i \in 1..Len(children) : RefRoots(children[i].schema) = {}

\* C14: a keys() call that re-declares a declared key replaces the child in place:
\* with no reference edge among the fields, the re-declared key keeps its order
\* relative to every untouched key, and only brand-new keys come after the
\* existing ones.
C14_ReplacedInPlace ==
    (KeysCalled /\ build.arg.entries # <<>>) =>
        LET old == build.before[1].children
            new == build.objs[build.built].children
            declared == {build.arg.entries[i].key : i \in 1..Len(build.arg.entries)}
            existing == {old[i].key : i \in 1..Len(old)}
        IN  (NoReferences(old) /\ NoReferences(new)) =>
               /\ \A x \in existing \cap declared : \A y \in existing \ declared :
                     (Pos(new, x) < Pos(new, y)) <=> (Pos(old, x) < Pos(old, y))
               /\ \A x \in declared \ existing : \A y \in existing :
                     Pos(new, y) < Pos(new, x)

\* the failures of a call that the call's arguments and receiver decide
CallMustFail ==
    \/ /\ build.op = "keys"
       /\ \E i \in 1..Len(build.arg.entries) : build.arg.entries[i].schema.rule = "bad"
    \/ /\ build.op = "rename"
       /\ \/ build.arg.from = build.arg.to
          \/ \E i \in 1..Len(build.before[1].renames) :
                build.before[1].renames[i].from = build.arg.from
    \/ /\ build.op = "apply"
       /\ \E i \in 1..Len(build.arg.names) :
             Pos(build.before[1].children, build.arg.names[i]) = 0

\* what a successful call added to the copy it returned
CarriesChange ==
    LET old == build.before[1]
        new == build.objs[build.built]
    IN  /\ build.op = "rename" => new = [old EXCEPT !.renames = Append(@, build.arg)]
        /\ build.op = "pattern" => new = [old EXCEPT !.patterns = Append(@, build.arg)]
        /\ build.op = "dependency" =>
              new = [old EXCEPT !.dependencies = Append(@, build.arg.dep)]
        /\ build.op = "unknown" => new.allowUnknown \in {"true", "false"}
        /\ build.op = "keys" =>
              /\ new.renames = old.renames /\ new.patterns = old.patterns
              /\ new.dependencies = old.dependencies
              /\ build.arg.kind = "map" =>
                    \A i \in 1..Len(build.arg.entries) :
                        Pos(new.children, build.arg.entries[i].key) # 0
        /\ build.op = "apply" =>
              \A i \in 1..Len(build.arg.names) :
                  new.children[Pos(new.children, build.arg.names[i])].schema.rule
                      \in {"required", "forbidden", "any", "valid1", "ref.a", "ref.b",
                           "ref.c"}

\* C15: every composition call leaves the receiver's children, renames,
\* dependencies, patterns and flags unchanged, when it succeeds (returning a new
\* schema that carries the change) and when it fails with a build error (cast
\* failure, duplicate rename source, rename to the same name, unknown child
\* key); a failed call yields no schema.
C15_ReceiverUnchanged ==
    build.n >= 1 =>
        /\ build.objs[build.this] = build.before[1]
        /\ CallMustFail => build.built = 0
        /\ build.built # 0 => build.built # build.this /\ CarriesChange

\* a call naming an unknown child key, made on a schema that declares fields
C15_Witness ==
    /\ build.n = 2 /\ build.op = "apply" /\ build.built = 0
    /\ build.arg.names = <<"a", "b">>
    /\ ChildKeys(build.before[1]) = <<"a">>

\* ------------------------------------------------------------------ C16
\* C16: two validate calls with the same schema, equal inputs and equal options
\* return equal values and equal error lists: nothing is carried from one call to
\* the next in the schema, its rename source patterns or its key patterns.
C16_Deterministic ==
    (Done /\ calls > 1 /\ orig = prev.input) =>
        /\ Out = prev.value
        /\ result.errors = prev.errors

\* ------------------------------------------------------------ C17..C20
\* the result of the i-th recursive validation of the declared fields
FieldItem(i) == Get(log.locals[i].target, log.locals[i].key)

FieldResult(i) ==
    LeafValidate(schema.children[i].schema, FieldItem(i),
                 [path |-> log.locals[i].path, ancestors |-> log.locals[i].ancestors],
                 options)

FieldsRan == Done /\ "fields" \in SeqToSet(log.ran)

\* C17: for a declared field whose validation succeeds, in every value the call
\* returns: if the field is flagged strip, or its result is undefined while its
\* input was defined, the key is removed; otherwise a defined result is held by
\* the key.  Every visited declared key has left the unprocessed set.
C17_FieldWriteBack ==
    FieldsRan =>
        \A i \in 1..Len(log.locals) :
            LET c == schema.children[i]
                r == FieldResult(i)
            IN  /\ c.key \notin SeqToSet(unprocessed)
                /\ r.errors = <<>> =>
                      IF c.schema.strip \/ (r.value = Undef /\ FieldItem(i) # Undef)
                      THEN ~Has(Out, c.key)
                      ELSE r.value # Undef => Get(Out, c.key) = r.value

\* what the working copy holds under the key of field j after its validation
WrittenBack(j) ==
    LET c == schema.children[j]
        r == FieldResult(j)
    IN  IF r.errors # <<>> THEN FieldItem(j)
        ELSE IF c.schema.strip \/ (r.value = Undef /\ FieldItem(j) # Undef) THEN r.outcome
        ELSE IF r.value # Undef THEN r.value
        ELSE FieldItem(j)

\* password is the key a, confirmation the key b
PasswordSchema ==
    /\ schema.children = <<Child("a", Leaf("min8", FALSE)), Child("b", Leaf("ref.a", FALSE))>>
    /\ schema.patterns = <<>>

PasswordInput == orig = <<[k |-> "a", v |-> "abcd1234"], [k |-> "b", v |-> "abc1"]>>

\* C18: with password (min length 8) and confirmation (equal to password by
\* reference), {password:'abcd1234', confirmation:'abc1'} under abortEarly false
\* gives exactly one error, on confirmation, and keeps password.  In general a
\* field consulting a sibling by reference is validated after that sibling and
\* resolves the reference against the working copy that holds the sibling's
\* written-back result.
C18_SiblingReference ==
    /\ (Done /\ calls = 1 /\ ~options.abortEarly /\ PasswordSchema /\ PasswordInput) =>
          /\ Len(result.errors) = 1
          /\ result.errors[1].path = Append(state.path, "b")
          /\ Get(Out, "a") = "abcd1234"
    /\ \A i \in 1..Len(log.locals) :
          \A k \in RefRoots(schema.children[i].schema) \cap Declared(schema) :
              LET j == Pos(schema.children, k)
              IN  /\ j < i
                  /\ Len(log.locals[i].ancestors) >= 1
                  /\ Get(log.locals[i].ancestors[1], k) = WrittenBack(j)
                  /\ (FieldResult(i).errors # <<>>) <=>
                        (FieldItem(i) # Undef /\ FieldItem(i) # WrittenBack(j))
                  /\ FieldsRan =>
                        (ErrorsAt(result.errors, log.locals[i].path) # {}
                             <=> FieldResult(i).errors # <<>>)

\* the password example, validated below an outer object
C18_Witness ==
    /\ Done /\ calls = 1 /\ ~options.abortEarly /\ PasswordSchema /\ PasswordInput
    /\ state.ancestors # <<>>
    /\ Len(result.errors) = 1

\* C19: every recursive validation, for declared fields and for pattern-matched
\* keys alike, is started with path = outer path + [key] and ancestors = the
\* working copy followed by all outer ancestors, so a reference to an enclosing
\* level resolves under a pattern-matched key as under a declared field.
C19_LocalState ==
    \A l \in SeqToSet(log.locals) \cup SeqToSet(log.matchedLocals) :
        /\ l.path = Append(state.path, l.key)
        /\ l.ancestors = <<l.target>> \o state.ancestors

\* the index of the first violated constraint (0 when none is)
FirstViolated(deps, obj) ==
    IF \E i \in 1..Len(deps) : Violated(deps[i], obj)
    THEN CHOOSE i \in 1..Len(deps) :
            Violated(deps[i], obj) /\ \A j \in 1..(i - 1) : ~Violated(deps[j], obj)
    ELSE 0

StripKeys == {schema.children[i].key : i \in {j \in 1..Len(schema.children) :
                                                schema.children[j].schema.strip}}

\* C20: the dependency constraints are evaluated last, in declaration order,
\* against the final working copy: a key removed by strip or by stripUnknown
\* counts as absent, a value written back counts as present; under abortEarly
\* no constraint after the first failing one is evaluated.
C20_DependenciesLast ==
    DepsRan =>
        /\ log.ran[Len(log.ran)] = "deps"
        /\ {"rename", "patterns", "unknown"} \subseteq SeqToSet(log.ran)
        /\ ~schema.childrenNull => "fields" \in SeqToSet(log.ran)
        /\ \A k \in StripKeys : ~Has(Out, k)
        /\ (StripUnknownFlag(options) /\ schema.allowUnknown # "true" /\ Closed(schema)) =>
              \A k \in SeqToSet(KeysOf(Out)) :
                  k \in Declared(schema)
                  \/ \E i \in 1..Len(schema.patterns) : PatternTest(schema.patterns[i], k)
        /\ \A i \in 1..log.evaluated :
              (log.outcomes[i].code # "") <=> Violated(schema.dependencies[i], Out)
        /\ log.evaluated =
              (IF options.abortEarly /\ FirstViolated(schema.dependencies, Out) # 0
               THEN FirstViolated(schema.dependencies, Out)
               ELSE Len(schema.dependencies))

\* a constraint whose verdict on the input differs from its verdict on the final
\* working copy, from which a strip field was removed
C20_Witness ==
    /\ DepsRan /\ log.evaluated >= 1
    /\ \E k \in StripKeys : Has(orig, k) /\ Get(orig, k) # Undef
    /\ Violated(schema.dependencies[1], Out) # Violated(schema.dependencies[1], orig)

\* ------------------------------------------------------------------ C21
\* the patterns a key matches
Matching(k) == {i \in 1..Len(schema.patterns) : PatternTest(schema.patterns[i], k)}

\* the recursive validations of keys that exactly one pattern matches
MatchedOnce ==
    {n \in 1..Len(log.matchedLocals) :
        /\ Cardinality(Matching(log.matchedLocals[n].key)) = 1
        /\ Cardinality({m \in 1..Len(log.matchedLocals) :
                           log.matchedLocals[m].key = log.matchedLocals[n].key}) = 1}

MatchedItem(n) == Get(log.matchedLocals[n].target, log.matchedLocals[n].key)

MatchedResult(n) ==
    LeafValidate(schema.patterns[CHOOSE i \in Matching(log.matchedLocals[n].key) : TRUE].rule,
                 MatchedItem(n),
                 [path |-> log.matchedLocals[n].path,
                  ancestors |-> log.matchedLocals[n].ancestors],
                 options)

PatternsRan == Done /\ "unknown" \in SeqToSet(log.ran)

\* C21: a key matched by a pattern is written back as a declared field is: when
\* the rule's result is undefined though the input value was defined the key is
\* deleted from the working copy, and a defined result is held by the key.
C21_PatternWriteBack ==
    PatternsRan =>
        \A n \in MatchedOnce :
            LET k == log.matchedLocals[n].key
                r == MatchedResult(n)
            IN  r.errors = <<>> =>
                   IF r.value = Undef /\ MatchedItem(n) # Undef
                   THEN ~Has(Out, k)
                   ELSE r.value # Undef => Get(Out, k) = r.value

\* ------------------------------------------------------------ C22, C25
\* the directives reached whose source is a regular expression
RegexSteps == {n \in 1..Len(log.steps) : IsRegExp(schema.renames[log.steps[n].i].from)}

SomeDefined(st) == \E j \in 1..Len(st.matched) : Get(st.before, st.matched[j]) # Undef

\* C22: a directive with a pattern source whose matched keys are not all
\* undefined, once applied, leaves in the target key the value of the last
\* matched key in the key order of the working copy; without alias every matched
\* key except the target is deleted and the target remains; with alias all
\* matched keys remain.
C22_RegexRename ==
    \A n \in RegexSteps :
        LET st == log.steps[n]
            d == schema.renames[st.i]
        IN  (st.outcome = "applied" /\ SomeDefined(st)) =>
               /\ st.matched =
                     SelectSeq(KeysOf(st.before), LAMBDA k : RegExpTest(d.from, k))
               /\ Has(st.after, d.to)
               /\ Get(st.after, d.to) = Get(st.before, st.matched[Len(st.matched)])
               /\ \A k \in SeqToSet(st.matched) \ {d.to} :
                     IF d.alias
                     THEN Has(st.after, k) /\ Get(st.after, k) = Get(st.before, k)
                     ELSE ~Has(st.after, k)

\* a pattern source that matched two keys holding different values, the target
\* being a third key
C22_Witness ==
    /\ Done
    /\ \E n \in RegexSteps :
          LET st == log.steps[n]
          IN  /\ st.outcome = "applied" /\ Len(st.matched) = 2
              /\ Get(st.before, st.matched[1]) \notin {Undef, Get(st.before, st.matched[2])}
              /\ Get(st.before, st.matched[2]) # Undef
              /\ schema.renames[st.i].to \notin SeqToSet(st.matched)
              /\ ~schema.renames[st.i].alias

\* ------------------------------------------------------------------ C23
\* the keys of the returned value that no declared field and no pattern covers
Undeclared ==
    {k \in SeqToSet(KeysOf(Out)) \ Declared(schema) : Matching(k) = {}}

\* C23: with skipFunctions off and unknown keys forbidden, every undeclared key
\* left in the returned value is reported as not allowed, whether its value is
\* callable or not, for every setting of stripUnknown.
C23_FunctionsNeedSkipFunctions ==
    (PatternsRan /\ ~options.skipFunctions /\ UnknownForbidden) =>
        \A k \in Undeclared :
            \E i \in ErrorsAt(result.errors, Append(state.path, k)) :
                result.errors[i].code = "object.allowUnknown"

\* ------------------------------------------------------------------ C24
\* the value after normalize, case, trim, replace and hex padding
BeforeTruncate(sch, units) ==
    CoerceHex(sch, CoerceReplace(sch, CoerceTrim(sch,
        CoerceCase(sch, CoerceNormalize(sch, units)))))

\* the first n code units
Take(units, n) == [i \in 1..(IF n < Len(units) THEN n ELSE Len(units)) |-> units[i]]

Coerced == str.pc \in {"base", "rules", "done"} /\ str.input.kind = "string"

C25_NoMatchNoChange ==
    \A n \in RegexSteps :
        log.steps[n].matched = <<>> =>
            /\ log.steps[n].after = log.steps[n].before
            /\ log.steps[n].errors = <<>>

\* ------------------------------------------------------------------ C26
\* C26: with abortEarly false a declared field whose validation fails is, in
\* the returned value, as it was before its validation: present or absent as
\* before and holding the same value, whatever flags the field's schema carries.
C26_FailedFieldUntouched ==
    (FieldsRan /\ ~options.abortEarly) =>
        \A i \in 1..Len(log.locals) :
            FieldResult(i).errors # <<>> =>
                /\ Has(Out, log.locals[i].key) <=>
                       Has(log.locals[i].target, log.locals[i].key)
                /\ Get(Out, log.locals[i].key) = FieldItem(i)

====
